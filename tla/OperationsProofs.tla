-------------------------- MODULE OperationsProofs --------------------------
(***************************************************************************)
(* Proofs of the safety properties of what keeps the chains running and    *)
(* connected: Upgrades, for every set of earlier releases and of skipped   *)
(* heights; HeaderKeeper, for every retention period; Setup, for every     *)
(* number of runs; Polling, for every timeout, interval and number of      *)
(* retries; and all for every bound.                                       *)
(*                                                                         *)
(* Upgrades is extended.  The others are instances with their own          *)
(* variables, except that Setup and Polling share pc and MaxRetries.       *)
(***************************************************************************)
EXTENDS Upgrades, Sequences, WellFoundedInduction, TLAPS

CONSTANTS RetentionPeriod, Bits, InitialHeights, MaxHeight, MaxExports
VARIABLES height, initial, exports, saved

HK == INSTANCE HeaderKeeper

CONSTANTS MaxRetries, Faults, MaxRuns, MaxEvmHeight
VARIABLES evmHeight, clients, creators, counterparties, simMempool, routers, runLatest,
          ethMempool, runs, pc, retryCount, latestBlock, txResult

S == INSTANCE Setup

CONSTANTS Callers, TimeoutAfter, PollingInterval, ConnectionErrors
VARIABLES fn, included, elapsed, retries, lastErr, backoffDuration, outcome

W == INSTANCE Polling

-----------------------------------------------------------------------------
(* Upgrades: the invariant.                                                *)

Names == UpgradeNames \cup {"none"}
Plans == [name : Names, height : Nat]
States == [version : Nat, stores : SUBSET Stores, vm : SUBSET Stores, done : SUBSET Names,
           last : Names, plan : Plans, localhost : Nat, migrated : BOOLEAN]

\* Every variable keeps its type.
UpgradesTypeOK ==
    /\ chain \in States
    /\ working \in States \cup {NoBlock}
    /\ file \in Plans
    /\ node \in [up : BOOLEAN, sim : BOOLEAN, skip : SUBSET Nat, added : SUBSET Stores]
    /\ release.stores \subseteq Stores

\* The effects of the handlers are those of the upgrades done, and the next plan is
\* for none of these.
EffectsOf(s) ==
    /\ s.localhost = IF "v7.1" \in s.done THEN 1 ELSE 0
    /\ s.migrated <=> "v7" \in s.done
    /\ s.plan # NoPlan => s.plan.name \in UpgradeNames \ s.done

\* upgrade-info.json names the plan of the next block, or is stale.
FileSound ==
    /\ file.height <= chain.version + 1
    /\ file.height = chain.version + 1 =>
         /\ file.name = chain.plan.name
         /\ Due(chain.version + 1)

\* A node that runs has all its stores, with the ones it adds.  It adds stores the
\* chain has not only if the next block is the plan's and this binary will run its
\* handler there.
NodeSound ==
    node.up =>
        /\ Mounted(node.sim) \subseteq chain.stores \cup node.added
        /\ ~ node.sim => chain.stores = release.stores /\ node.added = {}
        /\ \/ node.added \subseteq chain.stores
           \/ node.sim /\ Due(chain.version + 1) /\ ~ Skips(chain.version + 1)

\* The block being executed leaves the modules of the stores it will commit.
WorkingSound ==
    working # NoBlock =>
        /\ node.up
        /\ working.version = chain.version + 1
        /\ EffectsOf(working)
        /\ working.vm = chain.stores \cup node.added

\* The inductive invariant.
UpgradesInv ==
    /\ UpgradesTypeOK
    /\ EffectsOf(chain) /\ chain.vm = chain.stores
    /\ FileSound
    /\ NodeSound
    /\ WorkingSound

-----------------------------------------------------------------------------
(* Upgrades: the steps.                                                    *)

\* A chain that starts has all modules of its binary and no plan.
LEMMA UpgradesInit == Init => UpgradesInv
BY UpgradesAssumption
   DEF Init, UpgradesInv, UpgradesTypeOK, States, Plans, Names, UpgradeNames, Stores, EffectsOf,
       FileSound, NodeSound, WorkingSound, NoPlan, NoBlock, Down, Mounted

\* A binary starts only if the stores it adds are those of the plan whose block is
\* next: the file is not stale when its height is the next one.
LEMMA StartInv ==
    ASSUME UpgradesInv, NEW sim \in BOOLEAN, NEW skip \in SUBSET Nat, Start(sim, skip)
    PROVE  UpgradesInv'
<1> DEFINE added == Added(sim, skip)
<1>1. /\ ~ node.up /\ node' = [up |-> TRUE, sim |-> sim, skip |-> skip, added |-> added]
      /\ UNCHANGED <<chain, working, file, release>>
      /\ Mounted(sim) \ added \subseteq chain.stores
      /\ sim \/ chain.stores = release.stores
  BY DEF Start, Loads
<1>2. working = NoBlock
  BY <1>1 DEF UpgradesInv, WorkingSound
<1>3. /\ added \subseteq Stores
      /\ ~ sim => added = {}
      /\ added # {} => file.height = chain.version + 1 /\ file.height \notin skip
  BY DEF Added, StoreUpgrades, Stores
<1> HIDE DEF added
<1>4. UpgradesTypeOK'
  BY <1>1, <1>3 DEF UpgradesInv, UpgradesTypeOK
<1>5. FileSound' /\ (EffectsOf(chain) /\ chain.vm = chain.stores)'
  BY <1>1 DEF UpgradesInv, FileSound, EffectsOf, Due
<1>6. NodeSound'
  <2>1. (\/ node.added \subseteq chain.stores
         \/ node.sim /\ Due(chain.version + 1) /\ ~ Skips(chain.version + 1))'
    BY <1>1, <1>3 DEF UpgradesInv, FileSound, Due, Skips
  <2>2. Mounted(node.sim)' \subseteq chain.stores' \cup node.added'
    BY <1>1 DEF Mounted
  <2> QED BY <1>1, <1>3, <2>1, <2>2 DEF NodeSound
<1>7. WorkingSound'
  BY <1>1, <1>2 DEF WorkingSound
<1> QED BY <1>4, <1>5, <1>6, <1>7 DEF UpgradesInv

\* A node that stops, by a crash or by the upgrade module, forgets the block; the
\* file it may leave is for the plan of the next block.
LEMMA StopInv ==
    ASSUME UpgradesInv, Crash \/ PreBlockStops
    PROVE  UpgradesInv'
<1>1. node' = Down /\ working' = NoBlock /\ UNCHANGED <<chain, release>>
  BY DEF Crash, PreBlockStops
<1>2. /\ chain.version \in Nat /\ chain.plan \in Plans
      /\ \/ file' = file
         \/ /\ Due(chain.version + 1)
            /\ file' = [name |-> chain.plan.name, height |-> chain.version + 1]
  BY DEF Crash, PreBlockStops, NeedsUpgrade, UpgradesInv, UpgradesTypeOK, States
<1>3. file' \in Plans /\ FileSound'
  <2>1. CASE file' = file
    BY <1>1, <2>1 DEF UpgradesInv, UpgradesTypeOK, FileSound, Due
  <2>2. CASE /\ Due(chain.version + 1)
             /\ file' = [name |-> chain.plan.name, height |-> chain.version + 1]
    BY <1>1, <1>2, <2>2 DEF Plans, FileSound, Due
  <2> QED BY <1>2, <2>1, <2>2
<1>4. UpgradesTypeOK'
  BY <1>1, <1>3 DEF UpgradesInv, UpgradesTypeOK, Down
<1>5. NodeSound' /\ WorkingSound'
  BY <1>1 DEF NodeSound, WorkingSound, Down
<1>6. (EffectsOf(chain) /\ chain.vm = chain.stores)'
  BY <1>1 DEF UpgradesInv, EffectsOf
<1> QED BY <1>3, <1>4, <1>5, <1>6 DEF UpgradesInv

\* The state that ApplyUpgrade leaves of s.
Upgraded(name, s) ==
    [UpgradeHandler(name, s) EXCEPT !.plan = NoPlan, !.done = @ \cup {name}, !.last = name]

\* w is s after the handler called name has run and ApplyUpgrade has cleared the plan.
IsUpgraded(w, name, s) ==
    /\ w \in States /\ w.version = s.version /\ w.vm = Mounted(node.sim)
    /\ w.plan = NoPlan /\ w.done = s.done \cup {name}
    /\ w.localhost = IF name = "v7.1" THEN s.localhost + 1 ELSE s.localhost
    /\ w.migrated = IF name = "v7" THEN TRUE ELSE s.migrated

\* What a handler run by the upgrade module leaves of a state.
LEMMA UpgradedType ==
    ASSUME NEW s \in States, NEW name \in UpgradeNames, Mounted(node.sim) \in SUBSET Stores
    PROVE  IsUpgraded(Upgraded(name, s), name, s)
<1> DEFINE l == [s EXCEPT !.localhost = s.localhost + 1]
           m == [s EXCEPT !.migrated = TRUE]
           r == IF name = "v7.1" THEN l ELSE IF name = "v7" THEN m ELSE s
           a == [r EXCEPT !.vm = Mounted(node.sim)]
           b == [a EXCEPT !.plan = NoPlan]
           c == [b EXCEPT !.done = b.done \cup {name}]
           d == [c EXCEPT !.last = name]
<1>1. Upgraded(name, s) = d
  BY DEF Upgraded, UpgradeHandler, RunMigrations
<1>2. /\ l \in States /\ l.version = s.version /\ l.done = s.done
      /\ l.localhost = s.localhost + 1 /\ l.migrated = s.migrated
  BY DEF States
<1>3. /\ m \in States /\ m.version = s.version /\ m.done = s.done
      /\ m.localhost = s.localhost /\ m.migrated = TRUE
  BY DEF States
<1> HIDE DEF l, m
<1>4. /\ r \in States /\ r.version = s.version /\ r.done = s.done
      /\ r.localhost = IF name = "v7.1" THEN s.localhost + 1 ELSE s.localhost
      /\ r.migrated = IF name = "v7" THEN TRUE ELSE s.migrated
  BY <1>2, <1>3
<1> HIDE DEF r
<1>5. /\ a \in States /\ a.version = r.version /\ a.done = r.done
      /\ a.localhost = r.localhost /\ a.migrated = r.migrated /\ a.vm = Mounted(node.sim)
  BY <1>4 DEF States
<1> HIDE DEF a
<1>6. /\ b \in States /\ b.version = a.version /\ b.done = a.done
      /\ b.localhost = a.localhost /\ b.migrated = a.migrated /\ b.vm = a.vm /\ b.plan = NoPlan
  <2>1. NoPlan \in Plans
    BY DEF NoPlan, Plans, Names
  <2> QED BY <1>5, <2>1 DEF States
<1> HIDE DEF b
<1>7. /\ c \in States /\ c.version = b.version /\ c.done = b.done \cup {name}
      /\ c.localhost = b.localhost /\ c.migrated = b.migrated /\ c.vm = b.vm /\ c.plan = b.plan
  BY <1>6 DEF States, Names
<1> HIDE DEF c
<1>8. /\ d \in States /\ d.version = c.version /\ d.done = c.done
      /\ d.localhost = c.localhost /\ d.migrated = c.migrated /\ d.vm = c.vm /\ d.plan = c.plan
  BY <1>7 DEF States, Names
<1> HIDE DEF d
<1>9. IsUpgraded(d, name, s)
  BY <1>4, <1>5, <1>6, <1>7, <1>8, Zenon DEF IsUpgraded
<1> QED BY <1>1, <1>9, Zenon

\* The handler of a plan that is due brings the modules of all the binary's stores,
\* which are those of the chain with the added ones, and has its effect once.
LEMMA UpgradeHandlerLemma ==
    ASSUME UpgradesInv, node.up, Due(chain.version + 1),
           NEW s \in States, s.version = chain.version + 1, s.done = chain.done,
           s.localhost = chain.localhost, s.migrated = chain.migrated,
           NEW w, w = Upgraded(chain.plan.name, s)
    PROVE  /\ w \in States /\ EffectsOf(w)
           /\ w.version = chain.version + 1
           /\ w.vm = chain.stores \cup node.added
<1> DEFINE name == chain.plan.name
<1>1. chain \in States /\ name \in UpgradeNames \ chain.done /\ EffectsOf(chain)
  BY DEF UpgradesInv, UpgradesTypeOK, EffectsOf, Due
<1>2. Mounted(node.sim) \in SUBSET Stores
  BY DEF UpgradesInv, UpgradesTypeOK, Mounted, Stores
<1>3. Mounted(node.sim) = chain.stores \cup node.added
  <2>1. CASE node.sim
    BY <1>1, <2>1 DEF UpgradesInv, UpgradesTypeOK, NodeSound, Mounted, States
  <2>2. CASE ~ node.sim
    BY <2>2 DEF UpgradesInv, NodeSound, Mounted
  <2> QED BY <2>1, <2>2
<1>4. IsUpgraded(w, name, s)
  BY <1>1, <1>2, UpgradedType
<1> HIDE DEF name
<1>5. w.localhost = IF "v7.1" \in w.done THEN 1 ELSE 0
  BY <1>1, <1>4 DEF EffectsOf, IsUpgraded
<1>6. w.migrated <=> "v7" \in w.done
  BY <1>1, <1>4, Zenon DEF EffectsOf, IsUpgraded
<1>7. EffectsOf(w)
  BY <1>4, <1>5, <1>6 DEF EffectsOf, IsUpgraded
<1> QED BY <1>3, <1>4, <1>7 DEF IsUpgraded

\* The block's first step.
LEMMA PreBlockerInv ==
    ASSUME UpgradesInv, PreBlocker
    PROVE  UpgradesInv'
<1> DEFINE h == chain.version + 1
           s == [chain EXCEPT !.version = h]
<1>1. /\ node.up /\ UNCHANGED <<chain, file, node, release>>
      /\ \/ ~ Due(h) /\ working' = s
         \/ Due(h) /\ Skips(h) /\ working' = [s EXCEPT !.plan = NoPlan]
         \/ /\ Due(h) /\ ~ Skips(h)
            /\ working' = Upgraded(chain.plan.name, s)
  BY DEF PreBlocker, Upgraded
<1>2. chain \in States /\ EffectsOf(chain) /\ chain.vm = chain.stores
  BY DEF UpgradesInv, UpgradesTypeOK
<1>3. /\ s \in States /\ s.version = h /\ s.vm = chain.vm /\ s.done = chain.done
      /\ s.plan = chain.plan /\ s.localhost = chain.localhost /\ s.migrated = chain.migrated
  BY <1>2 DEF States
<1>4. /\ working' \in States /\ EffectsOf(working')
      /\ working'.version = h /\ working'.vm = chain.stores \cup node.added
  <2>1. CASE ~ Due(h) /\ working' = s
    <3>1. node.added \subseteq chain.stores
      BY <1>1, <2>1 DEF UpgradesInv, NodeSound
    <3> QED BY <1>2, <1>3, <2>1, <3>1 DEF EffectsOf
  <2>2. CASE Due(h) /\ Skips(h) /\ working' = [s EXCEPT !.plan = NoPlan]
    <3>1. node.added \subseteq chain.stores
      BY <1>1, <2>2 DEF UpgradesInv, NodeSound
    <3>2. NoPlan \in Plans
      BY DEF NoPlan, Plans, Names
    <3> HIDE DEF s
    <3>3. /\ working' \in States /\ working'.version = s.version /\ working'.vm = s.vm
          /\ working'.done = s.done /\ working'.plan = NoPlan
          /\ working'.localhost = s.localhost /\ working'.migrated = s.migrated
      BY <1>3, <2>2, <3>2 DEF States
    <3> QED BY <1>2, <1>3, <3>1, <3>3 DEF EffectsOf
  <2>3. CASE /\ Due(h) /\ ~ Skips(h)
             /\ working' = Upgraded(chain.plan.name, s)
    BY <1>1, <1>3, <2>3, UpgradeHandlerLemma
  <2> QED BY <1>1, <2>1, <2>2, <2>3
<1>5. UpgradesTypeOK'
  BY <1>1, <1>4 DEF UpgradesInv, UpgradesTypeOK
<1>6. FileSound' /\ NodeSound' /\ (EffectsOf(chain) /\ chain.vm = chain.stores)'
  BY <1>1 DEF UpgradesInv, FileSound, NodeSound, EffectsOf, Due, Skips, Mounted
<1>7. WorkingSound'
  BY <1>1, <1>4 DEF WorkingSound, EffectsOf
<1> QED BY <1>5, <1>6, <1>7 DEF UpgradesInv

\* A new plan is for an upgrade that was not done.
LEMMA SoftwareUpgradeInv ==
    ASSUME UpgradesInv, SoftwareUpgrade
    PROVE  UpgradesInv'
<1>1. PICK name \in UpgradeNames \ working.done, h \in working.version..MaxVersion :
        working' = [working EXCEPT !.plan = [name |-> name, height |-> h]]
  BY DEF SoftwareUpgrade
<1>2. working # NoBlock /\ UNCHANGED <<chain, file, node, release>>
  BY DEF SoftwareUpgrade
<1>3. working \in States
  BY <1>2 DEF UpgradesInv, UpgradesTypeOK
<1>4. h \in Nat
  BY <1>3, UpgradesAssumption DEF States
<1>5. [name |-> name, height |-> h] \in Plans /\ [name |-> name, height |-> h].name = name
  BY <1>4 DEF Plans, Names
<1>6. /\ working' \in States /\ working'.version = working.version /\ working'.vm = working.vm
      /\ working'.done = working.done /\ working'.plan = [name |-> name, height |-> h]
      /\ working'.localhost = working.localhost /\ working'.migrated = working.migrated
  BY <1>1, <1>3, <1>5 DEF States
<1>7. UpgradesTypeOK'
  BY <1>2, <1>6 DEF UpgradesInv, UpgradesTypeOK
<1>8. FileSound' /\ NodeSound' /\ (EffectsOf(chain) /\ chain.vm = chain.stores)'
  BY <1>2 DEF UpgradesInv, FileSound, NodeSound, EffectsOf, Due, Skips, Mounted
<1>9. WorkingSound'
  BY <1>1, <1>2, <1>5, <1>6 DEF UpgradesInv, WorkingSound, EffectsOf
<1> QED BY <1>7, <1>8, <1>9 DEF UpgradesInv

\* The commit: added stores and initialised modules arrive together.
LEMMA CommitInv ==
    ASSUME UpgradesInv, Commit
    PROVE  UpgradesInv'
<1>1. /\ working # NoBlock /\ working' = NoBlock /\ UNCHANGED <<file, node, release>>
      /\ chain' = [working EXCEPT !.stores = chain.stores \cup node.added]
  BY DEF Commit
<1>2. /\ working \in States /\ chain \in States /\ chain.stores \cup node.added \in SUBSET Stores
      /\ file \in Plans
  BY <1>1 DEF UpgradesInv, UpgradesTypeOK, States
<1>3. /\ chain' \in States /\ chain'.stores = chain.stores \cup node.added
      /\ chain'.version = working.version /\ chain'.vm = working.vm
      /\ chain'.done = working.done /\ chain'.plan = working.plan
      /\ chain'.localhost = working.localhost /\ chain'.migrated = working.migrated
  BY <1>1, <1>2 DEF States
<1>4. /\ node.up /\ working.version = chain.version + 1 /\ EffectsOf(working)
      /\ working.vm = chain.stores \cup node.added
  BY <1>1 DEF UpgradesInv, WorkingSound
<1>5. UpgradesTypeOK'
  BY <1>1, <1>3 DEF UpgradesInv, UpgradesTypeOK
<1>6. (EffectsOf(chain) /\ chain.vm = chain.stores)'
  BY <1>3, <1>4 DEF EffectsOf
<1>7. FileSound'
  <2>1. file.height \in Nat /\ chain.version \in Nat /\ file.height <= chain.version + 1
    BY <1>2 DEF UpgradesInv, FileSound, States, Plans
  <2> QED BY <1>1, <1>3, <1>4, <2>1 DEF FileSound
<1>8. NodeSound'
  BY <1>1, <1>3, <1>4 DEF UpgradesInv, NodeSound, Mounted
<1>9. WorkingSound'
  BY <1>1 DEF WorkingSound
<1> QED BY <1>5, <1>6, <1>7, <1>8, <1>9 DEF UpgradesInv

-----------------------------------------------------------------------------
(* Upgrades: the theorems.                                                 *)

\* The invariant holds throughout.
THEOREM UpgradesInvariance == Spec => []UpgradesInv
<1>1. Init => UpgradesInv
  BY UpgradesInit
<1>2. UpgradesInv /\ [Next]_vars => UpgradesInv'
  <2> SUFFICES ASSUME UpgradesInv, [Next]_vars PROVE UpgradesInv'
    OBVIOUS
  <2>1. CASE StartUpgrade
    BY <2>1, StartInv DEF StartUpgrade
  <2>2. CASE StartAny
    <3>1. PICK sim \in BOOLEAN, flag \in {{}} \cup {{h} : h \in SkipHeights} : Start(sim, flag)
      BY <2>2 DEF StartAny
    <3>2. flag \in SUBSET Nat
      BY UpgradesAssumption
    <3> QED BY <3>1, <3>2, StartInv
  <2>3. CASE Crash \/ PreBlockStops
    BY <2>3, StopInv
  <2>4. CASE PreBlocker
    BY <2>4, PreBlockerInv
  <2>5. CASE SoftwareUpgrade
    BY <2>5, SoftwareUpgradeInv
  <2>6. CASE Commit
    BY <2>6, CommitInv
  <2>7. CASE UNCHANGED vars
    BY <2>7 DEF vars, UpgradesInv, UpgradesTypeOK, EffectsOf, FileSound, NodeSound, WorkingSound,
                Due, Skips, Mounted
  <2> QED BY <2>1, <2>2, <2>3, <2>4, <2>5, <2>6, <2>7 DEF Next
<1> QED BY <1>1, <1>2, PTL DEF Spec

\* Upgrade handlers and store upgrades take effect once or not at all, through any
\* number of blocks, plans, crashes, wrong binaries and skipped heights.
THEOREM EffectsOnce == Spec => []EffectsIffDone
<1>1. UpgradesInv => EffectsIffDone
  BY DEF UpgradesInv, EffectsOf, EffectsIffDone
<1> QED BY <1>1, UpgradesInvariance, PTL

-----------------------------------------------------------------------------
(* The header keeper.                                                      *)

\* Every variable keeps its type.  The heights of a chain start at one.
KeeperTypeOK ==
    /\ initial \in Nat \ {0}
    /\ height \in Nat /\ height >= initial - 1
    /\ exports \in Nat
    /\ DOMAIN saved \subseteq Nat
    /\ saved = [h \in DOMAIN saved |-> saved[h]]

\* The inductive invariant.  What BeginBlocker keeps depends on what the block
\* before it left, so the two properties need each other.
KeeperInv == KeeperTypeOK /\ HK!SavedIsSuffix /\ HK!WindowExact

-----------------------------------------------------------------------------
(* The header keeper: pruning.                                             *)

\* With a header saved in every block, GetLatestSavedBlockHeight is the height of
\* the last block, so what it is compared with is the retention period before that,
\* or wraps to a height beyond it.
LEMMA MinHeightLemma ==
    ASSUME HK!KeeperAssumption, KeeperInv, height >= initial, height < MaxHeight
    PROVE  /\ HK!GetLatestSavedBlockHeight = height
           /\ height >= RetentionPeriod => HK!MinHeightToRetain = height - RetentionPeriod
           /\ height < RetentionPeriod => HK!MinHeightToRetain > height
           /\ HK!MinHeightToRetain \in Nat
<1> USE DEF HK!KeeperAssumption
<1>1. /\ height \in DOMAIN saved /\ height \in Nat
      /\ \A k \in DOMAIN saved : k \in Nat /\ k <= height
  BY DEF KeeperInv, KeeperTypeOK, HK!SavedIsSuffix
<1>2. HK!GetLatestSavedBlockHeight = height
  <2>1. \A h \in DOMAIN saved : (\A k \in DOMAIN saved : k <= h) => h = height
    BY <1>1
  <2> QED BY <1>1, <2>1 DEF HK!GetLatestSavedBlockHeight
<1> DEFINE m == 2^Bits
<1>3. m \in Int /\ height < m /\ RetentionPeriod \in 1..(m - 1)
  BY <1>1
<1>4. HK!MinHeightToRetain = (height - RetentionPeriod) % m
  BY <1>2 DEF HK!MinHeightToRetain
<1> HIDE DEF m
<1>5. CASE height >= RetentionPeriod
  BY <1>1, <1>2, <1>3, <1>4, <1>5
<1>6. CASE height < RetentionPeriod
  BY <1>1, <1>2, <1>3, <1>4, <1>6
<1> QED BY <1>1, <1>3, <1>5, <1>6

\* PruneHeaders keeps the headers of the last RetentionPeriod heights, or none while
\* the unsigned difference wraps.
LEMMA PruneHeadersLemma ==
    ASSUME HK!KeeperAssumption, KeeperInv, height < MaxHeight
    PROVE  HK!PruneHeaders = IF height >= RetentionPeriod
                          THEN {h \in DOMAIN saved : h >= height - RetentionPeriod}
                          ELSE {}
<1> USE DEF HK!KeeperAssumption
<1>1. height \in Nat /\ \A k \in DOMAIN saved : k \in Nat /\ k <= height
  BY DEF KeeperInv, KeeperTypeOK, HK!SavedIsSuffix
<1>2. CASE DOMAIN saved = {}
  BY <1>2 DEF KeeperInv, KeeperTypeOK, HK!PruneHeaders
<1>3. CASE DOMAIN saved # {}
  <2>1. height >= initial /\ saved # [h \in {} |-> HK!HeaderHash(h)]
    BY <1>1, <1>3 DEF KeeperInv, KeeperTypeOK, HK!SavedIsSuffix
  <2>2. HK!PruneHeaders =
          {h \in DOMAIN saved : \E k \in DOMAIN saved : k <= h /\ k >= HK!MinHeightToRetain}
    BY <2>1 DEF HK!PruneHeaders
  <2> QED BY <1>1, <2>1, <2>2, MinHeightLemma
<1> QED BY <1>2, <1>3

-----------------------------------------------------------------------------
(* The header keeper: the invariant.                                       *)

\* A chain starts without saved headers.
LEMMA KeeperInit ==
    ASSUME HK!KeeperAssumption
    PROVE  HK!Init => KeeperInv
BY DEF HK!KeeperAssumption, HK!Init, KeeperInv, KeeperTypeOK, HK!SavedIsSuffix, HK!WindowExact

\* A block keeps it: what is pruned is older than the window, and the header that
\* is saved closes it.
LEMMA BeginBlockerInv ==
    ASSUME HK!KeeperAssumption, KeeperInv, HK!BeginBlocker
    PROVE  KeeperInv'
<1> USE DEF HK!KeeperAssumption
<1> DEFINE new == height + 1
<1>1. /\ height \in Nat /\ initial \in Nat \ {0} /\ height >= initial - 1 /\ height < MaxHeight
      /\ height' = new /\ initial' = initial /\ exports' = exports /\ exports \in Nat
  BY DEF KeeperInv, KeeperTypeOK, HK!BeginBlocker
<1>2. /\ DOMAIN saved' = HK!PruneHeaders \cup {new}
      /\ saved'[new] = HK!HeaderHash(new)
      /\ \A h \in HK!PruneHeaders : h # new => saved'[h] = saved[h]
      /\ saved' = [h \in DOMAIN saved' |-> saved'[h]]
  BY DEF HK!BeginBlocker, HK!SaveHeaderHash
<1>3. HK!PruneHeaders = IF height >= RetentionPeriod
                     THEN {h \in DOMAIN saved : h >= height - RetentionPeriod}
                     ELSE {}
  BY <1>1, PruneHeadersLemma
<1>4. \A h \in DOMAIN saved : h \in Nat /\ h \in initial..height
  BY DEF KeeperInv, KeeperTypeOK, HK!SavedIsSuffix
<1>5. KeeperTypeOK'
  BY <1>1, <1>2, <1>3, <1>4 DEF KeeperTypeOK
<1>6. HK!SavedIsSuffix'
  <2>1. DOMAIN saved' \subseteq initial..new
    BY <1>1, <1>2, <1>3, <1>4
  <2>2. ASSUME NEW h \in initial..new, NEW k \in DOMAIN saved', k <= h
        PROVE  h \in DOMAIN saved'
    <3>1. CASE h = new
      BY <1>2, <3>1
    <3>2. CASE h \in initial..height
      <4>1. k \in HK!PruneHeaders
        BY <1>1, <1>2, <2>2, <3>2
      <4>2. k \in DOMAIN saved /\ height >= RetentionPeriod /\ k >= height - RetentionPeriod
        BY <1>3, <4>1
      <4>3. h \in DOMAIN saved
        BY <2>2, <3>2, <4>2 DEF KeeperInv, HK!SavedIsSuffix
      <4> QED BY <1>1, <1>2, <1>3, <1>4, <2>2, <4>2, <4>3
    <3> QED BY <1>1, <3>1, <3>2
  <2>3. \A h \in DOMAIN saved' : saved'[h] = HK!HeaderHash(h)
    BY <1>2, <1>3 DEF KeeperInv, HK!SavedIsSuffix
  <2> QED BY <1>1, <1>2, <2>1, <2>2, <2>3 DEF HK!SavedIsSuffix, HK!HeaderHash
<1>7. HK!WindowExact'
  <2>1. \A h \in DOMAIN saved' : h + RetentionPeriod + 1 >= new
    BY <1>1, <1>2, <1>3, <1>4
  <2>2. ASSUME NEW h \in initial..new, h >= RetentionPeriod, h + RetentionPeriod + 1 >= new
        PROVE  h \in DOMAIN saved'
    <3>1. CASE h = new
      BY <1>2, <3>1
    <3>2. CASE h \in initial..height
      <4>1. h \in DOMAIN saved
        BY <1>1, <2>2, <3>2 DEF KeeperInv, HK!WindowExact
      <4> QED BY <1>1, <1>2, <1>3, <2>2, <3>2, <4>1
    <3> QED BY <1>1, <3>1, <3>2
  <2> QED BY <1>1, <2>1, <2>2 DEF HK!WindowExact
<1> QED BY <1>5, <1>6, <1>7 DEF KeeperInv

\* So does an export and a new start from it.
LEMMA ExportGenesisInv ==
    ASSUME HK!KeeperAssumption, KeeperInv, HK!ExportAndInitGenesis
    PROVE  KeeperInv'
<1>1. height' \in Nat /\ initial' = height' + 1 /\ exports' \in Nat
  BY DEF KeeperInv, KeeperTypeOK, HK!ExportAndInitGenesis
<1>2. DOMAIN saved' = {} /\ saved' = [h \in DOMAIN saved' |-> saved'[h]]
  <2>1. saved' = [h \in {} |-> HK!HeaderHash(h)]
    BY DEF HK!ExportAndInitGenesis
  <2>2. DOMAIN saved' = {}
    BY <2>1
  <2>3. saved' = [h \in {} |-> saved'[h]]
    BY <2>1
  <2> QED BY Zenon, <2>2, <2>3
<1>3. KeeperTypeOK'
  BY <1>1, <1>2 DEF KeeperTypeOK
<1>4. HK!SavedIsSuffix'
  BY <1>1, <1>2 DEF HK!SavedIsSuffix
<1>5. HK!WindowExact'
  BY <1>1, <1>2 DEF HK!WindowExact
<1> QED BY <1>3, <1>4, <1>5 DEF KeeperInv

\* The invariant holds throughout.
THEOREM KeeperInvariance ==
    ASSUME HK!KeeperAssumption
    PROVE  HK!Spec => []KeeperInv
<1>1. HK!Init => KeeperInv
  BY KeeperInit
<1>2. KeeperInv /\ [HK!Next]_HK!vars => KeeperInv'
  <2> SUFFICES ASSUME HK!KeeperAssumption, KeeperInv, [HK!Next]_HK!vars PROVE KeeperInv'
    OBVIOUS
  <2>1. CASE HK!BeginBlocker
    BY <2>1, BeginBlockerInv
  <2>2. CASE HK!ExportAndInitGenesis
    BY <2>2, ExportGenesisInv
  <2>3. CASE UNCHANGED HK!vars
    BY <2>3 DEF HK!vars, KeeperInv, KeeperTypeOK, HK!SavedIsSuffix, HK!WindowExact
  <2> QED BY <2>1, <2>2, <2>3 DEF HK!Next
<1> QED BY <1>1, <1>2, PTL DEF HK!Spec

\* The store is a suffix of the chain without holes, with the hash of each header:
\* PruneHeaders in BeginBlocker never deletes a header above one it keeps.
THEOREM SuffixSaved ==
    ASSUME HK!KeeperAssumption
    PROVE  HK!Spec => []HK!SavedIsSuffix
<1>1. KeeperInv => HK!SavedIsSuffix
  BY DEF KeeperInv
<1> QED BY <1>1, KeeperInvariance, PTL

\* The store is exactly the window that RetentionPeriod and the unsigned difference
\* of PruneHeaders define, for every retention period and width.
THEOREM WindowSaved ==
    ASSUME HK!KeeperAssumption
    PROVE  HK!Spec => []HK!WindowExact
<1>1. KeeperInv => HK!WindowExact
  BY DEF KeeperInv
<1> QED BY <1>1, KeeperInvariance, PTL

-----------------------------------------------------------------------------
(* The setup tool.                                                         *)

\* The inductive invariant.  A run knows its deployment from the time it has
\* deployed, its router's client from the time it has seen the event, and what is
\* pending on SimApp while it waits for the registration is its registration.
SetupInv ==
    /\ routers \in Seq(BOOLEAN) /\ ethMempool \subseteq DOMAIN routers
    /\ txResult \in {"none", "ok", "error"}
    /\ pc \in {"addClient", "adding", "register", "registering", "done"} =>
         runLatest \in DOMAIN routers
    /\ pc \in {"register", "registering", "done"} => routers[runLatest]
    /\ pc = "registering" =>
         /\ simMempool # <<>> => simMempool[1].kind = "register"
         /\ txResult = "ok" => S!groth16ClientID \in counterparties
    /\ pc = "done" => S!groth16ClientID \in counterparties

\* What the chains do to a run's deployment: nothing but add the client.
LEMMA SetupChainsInv ==
    ASSUME SetupInv, S!EvmBlock \/ S!AddClient \/ S!DeliverTx
    PROVE  SetupInv'
<1>1. CASE S!EvmBlock
  BY <1>1 DEF S!EvmBlock, SetupInv, S!locals, S!groth16ClientID
<1>2. CASE S!AddClient
  <2>1. PICK d \in ethMempool : /\ routers' = [routers EXCEPT ![d] = TRUE]
                                /\ ethMempool' = ethMempool \ {d}
    BY <1>2 DEF S!AddClient
  <2>2. /\ routers' \in Seq(BOOLEAN) /\ DOMAIN routers' = DOMAIN routers
        /\ \A r \in DOMAIN routers : routers[r] => routers'[r]
    BY <2>1 DEF SetupInv
  <2> QED BY <1>2, <2>1, <2>2 DEF S!AddClient, SetupInv, S!locals, S!groth16ClientID
<1>3. CASE S!DeliverTx
  <2>1. /\ simMempool # <<>> /\ simMempool' = <<>>
        /\ UNCHANGED <<routers, ethMempool, runLatest, pc>>
    BY <1>3 DEF S!DeliverTx
  <2>2. counterparties \subseteq counterparties'
    BY <1>3 DEF S!DeliverTx
  <2>3. simMempool[1].kind = "register" /\ txResult' = "ok" =>
          txResult = "ok" \/ S!groth16ClientID \in counterparties'
    BY <1>3 DEF S!DeliverTx
  <2>4. txResult' \in {"none", "ok", "error"}
    BY <1>3 DEF S!DeliverTx, SetupInv
  <2> QED BY <2>1, <2>2, <2>3, <2>4 DEF SetupInv, S!groth16ClientID
<1> QED BY <1>1, <1>2, <1>3

\* Nor do the tool's steps forget what it has seen.
LEMMA SetupToolInv ==
    ASSUME SetupInv, S!Run \/ S!Step \/ S!DeployFails \/ S!GiveUp
    PROVE  SetupInv'
<1> USE DEF S!chains, S!locals, S!groth16ClientID
<1>1. CASE S!Run \/ S!GetLatestBlock \/ S!GiveUp
  BY <1>1 DEF S!Run, S!GetLatestBlock, S!GiveUp, SetupInv
<1>2. CASE S!CreateGroth16LightClient
  BY <1>2 DEF S!CreateGroth16LightClient, S!Broadcast, SetupInv
<1>3. CASE S!DeployEurekaContracts \/ S!DeployFails
  <2>1. /\ routers' = Append(routers, FALSE) /\ ethMempool' = ethMempool
        /\ txResult' = txResult
        /\ (pc' = "addClient" /\ runLatest' = Len(routers) + 1) \/ pc' = "failed"
    BY <1>3 DEF S!DeployEurekaContracts, S!DeployFails
  <2>2. /\ routers' \in Seq(BOOLEAN) /\ DOMAIN routers \subseteq DOMAIN routers'
        /\ Len(routers) + 1 \in DOMAIN routers'
    BY <2>1 DEF SetupInv
  <2> QED BY <2>1, <2>2 DEF SetupInv
<1>4. CASE S!AddClientToRouter
  BY <1>4 DEF S!AddClientToRouter, SetupInv
<1>5. CASE S!ClientAdded
  BY <1>5 DEF S!ClientAdded, SetupInv
<1>6. CASE S!RegisterCounterparty
  BY <1>6 DEF S!RegisterCounterparty, S!Broadcast, SetupInv
<1>7. CASE S!TxLanded
  BY <1>7 DEF S!TxLanded, SetupInv
<1> QED BY <1>1, <1>2, <1>3, <1>4, <1>5, <1>6, <1>7 DEF S!Step

\* The setup tool returns only when the chains are connected in both directions:
\* for every number of runs and retries, through whatever runs failed before
\* (main, testing/demo/pkg/setup).
THEOREM SetupConnects == S!Spec => []S!DoneMeansConnected
<1>1. S!Init => SetupInv
  BY DEF S!Init, SetupInv
<1>2. SetupInv /\ [S!Next]_S!vars => SetupInv'
  <2> SUFFICES ASSUME SetupInv, [S!Next]_S!vars PROVE SetupInv'
    OBVIOUS
  <2>1. CASE UNCHANGED S!vars
    BY <2>1 DEF S!vars, S!chains, S!locals, SetupInv, S!groth16ClientID
  <2> QED BY <2>1, SetupChainsInv, SetupToolInv DEF S!Next
<1>3. SetupInv => S!DoneMeansConnected
  BY DEF SetupInv, S!DoneMeansConnected
<1> QED BY <1>1, <1>2, <1>3, PTL DEF S!Spec
-----------------------------------------------------------------------------
(* Waiting for a transaction.                                              *)

\* A set of numbers that has zero and with every number the next one has them all.
LEMMA Induction ==
    ASSUME NEW P \in SUBSET Nat, 0 \in P, \A n \in P : n + 1 \in P
    PROVE  P = Nat
<1> DEFINE R == {p \in Nat \X Nat : p[1] < p[2]}
           B == Nat \ P
<1>1. SUFFICES ASSUME B # {} PROVE FALSE
  OBVIOUS
<1>2. IsWellFoundedOn(R, Nat)
  BY NatLessThanWellFounded DEF OpToRel
<1>3. PICK n \in B : \A m \in B : ~ (<<m, n>> \in R)
  <2>1. B \in SUBSET Nat
    OBVIOUS
  <2> HIDE DEF R, B
  <2> QED BY <1>1, <1>2, <2>1, WFMin
<1>4. n \in Nat /\ n # 0 /\ n - 1 \in Nat /\ n - 1 < n /\ n = (n - 1) + 1
  OBVIOUS
<1>5. n - 1 \in P
  <2>1. <<n - 1, n>> \in Nat \X Nat /\ <<n - 1, n>>[1] = n - 1 /\ <<n - 1, n>>[2] = n
    BY <1>4
  <2>2. <<n - 1, n>> \in R
    BY <1>4, <2>1
  <2> HIDE DEF R
  <2> QED BY <1>3, <1>4, <2>2
<1> QED BY <1>4, <1>5

\* f doubles m times, from one second.
IsBackoff(f, m) == f[0] = 1 /\ \A n \in 1..m : f[n] = 2 * f[n - 1]

\* There is a function that doubles, as far as one wants.
LEMMA BackoffExists ==
    ASSUME NEW m \in Nat
    PROVE  \E f \in [0..m -> Nat] : IsBackoff(f, m)
<1> DEFINE P == {k \in Nat : \E f \in [0..k -> Nat] : IsBackoff(f, k)}
<1>1. 0 \in P
  <2> DEFINE f == [n \in 0..0 |-> 1]
  <2>1. f \in [0..0 -> Nat] /\ f[0] = 1
    OBVIOUS
  <2> HIDE DEF f
  <2>2. IsBackoff(f, 0)
    BY <2>1 DEF IsBackoff
  <2> QED BY <2>1, <2>2
<1>2. ASSUME NEW k \in P PROVE k + 1 \in P
  <2>1. k \in Nat /\ k + 1 \in Nat
    BY <1>2
  <2>2. PICK f \in [0..k -> Nat] : IsBackoff(f, k)
    BY <1>2
  <2> DEFINE g == [n \in 0..k + 1 |-> IF n = k + 1 THEN 2 * f[k] ELSE f[n]]
  <2>3. g \in [0..k + 1 -> Nat]
    BY <2>1, <2>2
  <2>4. /\ g[k + 1] = 2 * f[k] /\ \A n \in 0..k : g[n] = f[n]
    BY <2>1
  <2> HIDE DEF g
  <2>5. IsBackoff(g, k + 1)
    <3>1. g[0] = 1
      BY <2>1, <2>2, <2>4 DEF IsBackoff
    <3>2. ASSUME NEW n \in 1..k + 1 PROVE g[n] = 2 * g[n - 1]
      <4>1. CASE n = k + 1
        <5>1. n - 1 = k /\ k \in 0..k
          BY <2>1, <4>1
        <5> QED BY <2>4, <4>1, <5>1
      <4>2. CASE n # k + 1
        <5>1. n \in 1..k /\ n \in 0..k /\ n - 1 \in 0..k
          BY <2>1, <4>2
        <5> QED BY <2>2, <2>4, <5>1 DEF IsBackoff
      <4> QED BY <4>1, <4>2
    <3> QED BY <3>1, <3>2 DEF IsBackoff
  <2> QED BY <2>1, <2>3, <2>5
<1>3. P = Nat
  <2>1. P \in SUBSET Nat
    OBVIOUS
  <2> HIDE DEF P
  <2> QED BY <1>1, <1>2, <2>1, Induction
<1> QED BY <1>3

\* Backoff doubles and never falls.
LEMMA BackoffGrows ==
    ASSUME W!PollingAssumption
    PROVE  /\ W!Backoff[0] = 1
           /\ \A n \in 0..MaxRetries : W!Backoff[n] \in Nat /\ W!Backoff[n] <= W!Backoff[MaxRetries]
           /\ \A n \in 0..MaxRetries - 1 : W!Backoff[n + 1] = 2 * W!Backoff[n]
<1>0. MaxRetries \in Nat
  BY DEF W!PollingAssumption
<1> DEFINE Doubles(f) == f = [n \in 0..MaxRetries |-> IF n = 0 THEN 1 ELSE 2 * f[n - 1]]
<1>1. \E f : Doubles(f)
  <2>1. PICK f \in [0..MaxRetries -> Nat] : IsBackoff(f, MaxRetries)
    BY <1>0, BackoffExists
  <2>2. \A n \in 0..MaxRetries : f[n] = IF n = 0 THEN 1 ELSE 2 * f[n - 1]
    BY <1>0, <2>1 DEF IsBackoff
  <2> QED BY <2>1, <2>2
<1>2. W!Backoff = CHOOSE f : Doubles(f)
  BY DEF W!Backoff
<1> DEFINE b == W!Backoff
<1>3. Doubles(b)
  BY Zenon, <1>1, <1>2
<1> HIDE DEF b
<1>4. b[0] = 1 /\ \A n \in 0..MaxRetries - 1 : b[n + 1] = 2 * b[n]
  BY <1>0, <1>3
<1> HIDE DEF Doubles
<1> DEFINE P == {m \in Nat : m <= MaxRetries => /\ b[m] \in Nat
                                                /\ \A n \in 0..m : b[n] \in Nat /\ b[n] <= b[m]}
<1>5. 0 \in P
  BY <1>0, <1>4
<1>6. ASSUME NEW m \in P PROVE m + 1 \in P
  BY <1>0, <1>4
<1>7. P = Nat
  <2>1. P \in SUBSET Nat
    OBVIOUS
  <2> HIDE DEF P
  <2> QED BY <1>5, <1>6, <2>1, Induction
<1>8. \A n \in 0..MaxRetries : b[n] \in Nat /\ b[n] <= b[MaxRetries]
  BY <1>0, <1>7
<1> QED BY <1>4, <1>8 DEF b

\* The inductive invariant: while a poll lasts its sleeps are what the backoff has
\* grown by, and a poll that met an error does not go back to waiting.
PollingInv ==
    /\ elapsed \in Nat /\ retries \in 0..MaxRetries
    /\ backoffDuration = W!Backoff[retries]
    /\ elapsed <= TimeoutAfter + backoffDuration - 1
    /\ pc = "call" => retries < MaxRetries /\ (retries > 0 => lastErr = TRUE)
    /\ pc = "wait" => retries = 0

\* The deadline of WaitForCondition is overrun by one series of backoffs at most:
\* for every timeout, polling interval and number of retries, whatever is polled
\* (testing/demo/pkg/utils/utils.go).
THEOREM DeadlineHolds ==
    ASSUME W!PollingAssumption
    PROVE  W!Spec => []W!DeadlineOverrunBounded
<1>0. /\ TimeoutAfter \in Nat /\ PollingInterval \in Nat \ {0} /\ MaxRetries \in Nat \ {0}
      /\ W!Backoff[0] = 1
      /\ \A n \in 0..MaxRetries : W!Backoff[n] \in Nat /\ W!Backoff[n] <= W!Backoff[MaxRetries]
      /\ \A n \in 0..MaxRetries - 1 : W!Backoff[n + 1] = 2 * W!Backoff[n]
  BY BackoffGrows DEF W!PollingAssumption
<1>a. TimeoutAfter \in Nat /\ PollingInterval \in Nat \ {0} /\ MaxRetries \in Nat \ {0}
      /\ W!Backoff[0] = 1
  BY <1>0
<1>1. W!Init => PollingInv
  BY <1>a DEF W!Init, PollingInv
<1>2. PollingInv /\ [W!Next]_W!vars => PollingInv'
  <2> SUFFICES ASSUME PollingInv, [W!Next]_W!vars PROVE PollingInv'
    OBVIOUS
  <2>1. CASE W!Include \/ UNCHANGED W!vars
    BY <2>1 DEF W!Include, W!vars, PollingInv
  <2>2. CASE W!ContextDone
    BY <1>0, <2>2 DEF W!ContextDone, PollingInv
  <2>3. CASE W!Poll
    BY <1>a, <2>3 DEF W!Poll, PollingInv
  <2>4. CASE W!Call
    <3>1. PICK o : pc = "call" /\ (W!NoError(o) \/ W!ConnectionError(o) \/ W!OtherError(o))
      BY <2>4 DEF W!Call
    <3>2. CASE W!NoError(o)
      BY <1>0, <3>1, <3>2 DEF W!NoError, PollingInv
    <3>3. CASE W!ConnectionError(o)
      <4>1. /\ retries \in 0..MaxRetries - 1 /\ retries' = retries + 1 /\ lastErr' = TRUE
            /\ elapsed' = elapsed + backoffDuration /\ backoffDuration' = 2 * backoffDuration
            /\ pc' = IF retries + 1 < MaxRetries THEN "call" ELSE "error"
        BY <1>0, <3>1, <3>3 DEF W!ConnectionError, PollingInv
      <4>2. /\ backoffDuration \in Nat /\ retries' \in 0..MaxRetries
            /\ backoffDuration' = W!Backoff[retries']
        BY <1>0, <4>1 DEF PollingInv
      <4> QED BY <1>0, <4>1, <4>2 DEF PollingInv
    <3>4. CASE W!OtherError(o)
      BY <1>0, <3>1, <3>4 DEF W!OtherError, PollingInv
    <3> QED BY <3>1, <3>2, <3>3, <3>4
  <2> QED BY <2>1, <2>2, <2>3, <2>4 DEF W!Next, W!WaitForCondition
<1>3. PollingInv => W!DeadlineOverrunBounded
  BY <1>0 DEF PollingInv, W!DeadlineOverrunBounded
<1> QED BY <1>1, <1>2, <1>3, PTL DEF W!Spec
=============================================================================
