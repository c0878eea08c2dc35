----------------------------- MODULE ExportProofs ---------------------------
(***************************************************************************)
(* Proofs, for all finite sets of validators and delegators, every unit of *)
(* a coin and all bounds, that blocks, exports and restarts keep the       *)
(* invariant, and of the properties of Export.                             *)
(***************************************************************************)
EXTENDS DistributionProofs

-----------------------------------------------------------------------------
(* Blocks keep the state sound.                                            *)

\* A block's fees (AllocateTokens) leave the state sound.
LEMMA AllocatedSound ==
    ASSUME NEW s, NEW w, NEW h, Sound(s, h), NEW v \in s.lastVals, Allocated(s, w, v)
    PROVE  Sound(w, h)
<1>1. v \in Validators
  BY DEF Sound, InSet
<1>2. /\ IsState(w)
      /\ w.moduleBalance = s.moduleBalance + 2
      /\ w.commission = Plus(s.commission, v, 1)
      /\ w.outstanding = Plus(s.outstanding, v, 2 * Unit)
      /\ w.rewards = Rewarded(s.delegations, s.rewards, v)
  BY Zenon DEF Allocated
<1>3. /\ w.jailed = s.jailed /\ w.powerIndex = s.powerIndex /\ w.lastVals = s.lastVals
      /\ w.ubds = s.ubds /\ w.reds = s.reds /\ w.delegations = s.delegations
      /\ w.startingInfo = s.startingInfo /\ w.references = s.references
      /\ w.slashes = s.slashes /\ w.slashEvents = s.slashEvents
      /\ w.communityPool = s.communityPool
  BY Zenon DEF Allocated, Same, Fields
<1>4. Solvent(w.delegations, w.rewards, w.commission, w.outstanding, w.communityPool,
              w.moduleBalance)
  <2>1. /\ Delegated(s.delegations)
        /\ Solvent(s.delegations, s.rewards, s.commission, s.outstanding, s.communityPool,
                   s.moduleBalance)
    BY Zenon DEF Sound
  <2>2. Solvent(s.delegations, Rewarded(s.delegations, s.rewards, v), Plus(s.commission, v, 1),
                Plus(s.outstanding, v, 2 * Unit), s.communityPool, s.moduleBalance + 2)
    BY Zenon, <1>1, <2>1, AllocateTokensSolvent
  <2> QED BY Zenon, <1>2, <1>3, <2>2
<1> QED BY Zenon, <1>2, <1>3, <1>4 DEF Sound

\* So does Unjail.
LEMMA UnjailedSound ==
    ASSUME NEW s, NEW w, NEW h, Sound(s, h), NEW v \in s.jailed, Unjailed(s, w, v)
    PROVE  Sound(w, h)
<1>1. /\ IsState(w)
      /\ w.jailed = s.jailed \ {v}
      /\ w.powerIndex = s.powerIndex \cup {v} /\ w.lastVals = s.lastVals \cup {v}
  BY Zenon DEF Unjailed
<1>2. /\ w.rewards = s.rewards /\ w.commission = s.commission
      /\ w.outstanding = s.outstanding /\ w.moduleBalance = s.moduleBalance
      /\ w.ubds = s.ubds /\ w.reds = s.reds /\ w.delegations = s.delegations
      /\ w.startingInfo = s.startingInfo /\ w.references = s.references
      /\ w.slashes = s.slashes /\ w.slashEvents = s.slashEvents
      /\ w.communityPool = s.communityPool
  BY Zenon DEF Unjailed, Same, Fields
<1>3. InSet(w.jailed, w.powerIndex, w.lastVals)
  <2>1. InSet(s.jailed, s.powerIndex, s.lastVals)
    BY Zenon DEF Sound
  <2> QED BY <1>1, <2>1 DEF InSet
<1> QED BY Zenon, <1>1, <1>2, <1>3 DEF Sound

\* One more slash: its record is referenced once (Slash).
LEMMA CountedSlash ==
    ASSUME NEW n \in Nat, NEW refs, NEW E, NEW m, NEW h \in Nat, Counted(n, refs, E, m)
    PROVE  Counted(n, refs + 1, E \cup {[n |-> m + 1, height |-> h]}, m + 1)
<1> DEFINE event == [n |-> m + 1, height |-> h]
<1>1. /\ E \subseteq [n : Nat, height : Nat] /\ IsFiniteSet(E) /\ m \in Nat
      /\ \A e \in E : e.n <= m
      /\ refs = 1 + n + Cardinality(E)
  BY DEF Counted
<1>2. event \in [n : Nat, height : Nat] /\ event.n = m + 1
  BY <1>1
<1> HIDE DEF event
<1>3. event \notin E
  BY <1>1, <1>2
<1>4. IsFiniteSet(E \cup {event}) /\ Cardinality(E \cup {event}) = Cardinality(E) + 1
      /\ Cardinality(E) \in Nat
  BY <1>1, <1>3, FS_AddElement, FS_CardinalityType
<1>5. \A e \in E \cup {event} : e.n <= m + 1
  BY <1>1, <1>2
<1>6. refs + 1 = 1 + n + Cardinality(E \cup {event})
  BY <1>1, <1>4
<1>7. Counted(n, refs + 1, E \cup {event}, m + 1)
  BY <1>1, <1>2, <1>4, <1>5, <1>6 DEF Counted
<1> QED BY <1>7 DEF event

\* And it explains the stake of the delegations that were there (Slash).
LEMMA ExplainedSlash ==
    ASSUME NEW info, NEW E, NEW m \in Nat, NEW h \in Nat, Explained(info, E, m, h)
    PROVE  Explained(info, E \cup {[n |-> m + 1, height |-> h]}, m + 1, h)
<1> DEFINE event == [n |-> m + 1, height |-> h]
<1>1. event.n = m + 1 /\ event.height = h
  OBVIOUS
<1> HIDE DEF event
<1>2. info \in [height : 0..h, slashes : 0..m]
  BY DEF Explained
<1>3. info \in [height : 0..h, slashes : 0..(m + 1)]
  BY <1>2
<1>4. ASSUME NEW i \in info.slashes + 1..m + 1
      PROVE  \E e \in E \cup {event} : e.n = i /\ e.height >= info.height
  <2>1. CASE i = m + 1
    BY <1>1, <1>2, <2>1
  <2>2. CASE i # m + 1
    <3>1. i \in info.slashes + 1..m
      BY <1>2, <2>2
    <3> QED BY <3>1 DEF Explained
  <2> QED BY <2>1, <2>2
<1>5. Explained(info, E \cup {event}, m + 1, h)
  BY <1>3, <1>4 DEF Explained
<1> QED BY <1>5 DEF event

\* So does Slash.
LEMMA SlashedSound ==
    ASSUME NEW s, NEW w, NEW h, Sound(s, h), NEW v \in s.lastVals, Slashed(s, w, v, h)
    PROVE  Sound(w, h)
<1> DEFINE Grown(E, m) == E \cup {[n |-> m + 1, height |-> h]}
<1>1. /\ v \in Validators /\ h \in Nat
      /\ DOMAIN s.references = Validators /\ DOMAIN s.slashes = Validators
      /\ DOMAIN s.slashEvents = Validators
      /\ InSet(s.jailed, s.powerIndex, s.lastVals)
      /\ Delegated(s.delegations)
  BY DEF Sound, InSet
<1>2. /\ IsState(w)
      /\ w.slashes = Plus(s.slashes, v, 1)
      /\ w.slashEvents = [s.slashEvents EXCEPT ![v] = Grown(@, s.slashes[v])]
      /\ w.references = Plus(s.references, v, 1)
      /\ w.jailed = s.jailed \cup {v}
      /\ w.powerIndex = s.powerIndex \ {v} /\ w.lastVals = s.lastVals \ {v}
  BY Zenon DEF Slashed, Event
<1>3. /\ w.rewards = s.rewards /\ w.commission = s.commission
      /\ w.outstanding = s.outstanding /\ w.moduleBalance = s.moduleBalance
      /\ w.ubds = s.ubds /\ w.reds = s.reds /\ w.delegations = s.delegations
      /\ w.startingInfo = s.startingInfo /\ w.communityPool = s.communityPool
  BY Zenon DEF Slashed, Same, Fields
<1>4. InSet(w.jailed, w.powerIndex, w.lastVals)
  BY <1>1, <1>2 DEF InSet
<1> HIDE DEF Grown
<1>6. /\ DOMAIN w.references = Validators /\ DOMAIN w.slashes = Validators
      /\ DOMAIN w.slashEvents = Validators
  BY <1>1, <1>2 DEF Plus
<1>7. /\ w.slashes[v] = s.slashes[v] + 1 /\ w.references[v] = s.references[v] + 1
      /\ w.slashEvents[v] = Grown(s.slashEvents[v], s.slashes[v])
      /\ \A u \in Validators \ {v} : /\ w.slashes[u] = s.slashes[u]
                                     /\ w.references[u] = s.references[u]
                                     /\ w.slashEvents[u] = s.slashEvents[u]
  BY <1>1, <1>2 DEF Plus
<1>8. ASSUME NEW u \in Validators
      PROVE  Counted(Cardinality(Of(s.delegations, u)), w.references[u], w.slashEvents[u],
                     w.slashes[u])
  <2> DEFINE n == Cardinality(Of(s.delegations, u))
  <2>1. Counted(n, s.references[u], s.slashEvents[u], s.slashes[u])
    BY DEF Sound
  <2>2. n \in Nat
    <3>1. s.delegations \in SUBSET (Delegators \X Validators)
      BY DEF Sound, Delegated
    <3> QED BY <3>1, FiniteDelegations
  <2> SUFFICES Counted(n, w.references[u], w.slashEvents[u], w.slashes[u])
    OBVIOUS
  <2> HIDE DEF n
  <2>3. CASE u # v
    BY <1>7, <2>1, <2>3
  <2>4. CASE u = v
    <3>1. Counted(n, s.references[u] + 1, Grown(s.slashEvents[u], s.slashes[u]),
                  s.slashes[u] + 1)
      BY <1>1, <2>1, <2>2, CountedSlash DEF Grown
    <3> QED BY Zenon, <1>7, <2>4, <3>1
  <2> QED BY <2>3, <2>4
<1>9. ASSUME NEW d \in s.delegations
      PROVE  Explained(s.startingInfo[d], w.slashEvents[d[2]], w.slashes[d[2]], h)
  <2>1. Explained(s.startingInfo[d], s.slashEvents[d[2]], s.slashes[d[2]], h)
    BY DEF Sound
  <2>2. d[2] \in Validators
    BY DEF Sound, Delegated
  <2>3. CASE d[2] # v
    BY <1>7, <2>1, <2>2, <2>3
  <2>4. CASE d[2] = v
    <3>1. s.slashes[v] \in Nat
      BY <1>1 DEF Sound, Counted
    <3>2. Explained(s.startingInfo[d], Grown(s.slashEvents[v], s.slashes[v]),
                    s.slashes[v] + 1, h)
      BY <1>1, <2>1, <2>4, <3>1, ExplainedSlash DEF Grown
    <3> QED BY Zenon, <1>7, <2>4, <3>2
  <2> QED BY <2>3, <2>4
<1>10. /\ \A u \in Validators : Counted(Cardinality(Of(w.delegations, u)), w.references[u],
                                        w.slashEvents[u], w.slashes[u])
       /\ \A d \in w.delegations : Explained(w.startingInfo[d], w.slashEvents[d[2]],
                                             w.slashes[d[2]], h)
  BY Zenon, <1>3, <1>8, <1>9
<1> QED BY Zenon, <1>2, <1>3, <1>4, <1>6, <1>10 DEF Sound

\* So does WithdrawDelegationRewards, from any of the delegations.
LEMMA RewardsWithdrawnSound ==
    ASSUME NEW s, NEW w, NEW h, Sound(s, h), NEW D \in SUBSET s.delegations,
           RewardsWithdrawn(s, w, D, h)
    PROVE  Sound(w, h)
<1>1. /\ IsState(w)
      /\ w.rewards = Withdrawn(s.delegations, s.rewards, D)
      /\ w.outstanding = NotOutstanding(s.outstanding, s.rewards, D)
      /\ w.communityPool = s.communityPool + Total(Fractions(s.rewards, D), D)
      /\ w.moduleBalance = s.moduleBalance - Total(Coins(s.rewards, D), D)
      /\ w.startingInfo = [d \in s.delegations |-> IF d \in D THEN Info(s, d[2], h)
                                                              ELSE s.startingInfo[d]]
  BY Zenon DEF RewardsWithdrawn
<1>2. /\ w.jailed = s.jailed /\ w.powerIndex = s.powerIndex /\ w.lastVals = s.lastVals
      /\ w.ubds = s.ubds /\ w.reds = s.reds /\ w.delegations = s.delegations
      /\ w.commission = s.commission /\ w.references = s.references
      /\ w.slashes = s.slashes /\ w.slashEvents = s.slashEvents
  BY Zenon DEF RewardsWithdrawn, Same, Fields
<1>3. /\ s.delegations \in SUBSET (Delegators \X Validators)
      /\ Solvent(s.delegations, s.rewards, s.commission, s.outstanding, s.communityPool,
                 s.moduleBalance)
      /\ h \in Nat
  BY Zenon DEF Sound, Delegated
<1>4. Solvent(w.delegations, w.rewards, w.commission, w.outstanding, w.communityPool,
              w.moduleBalance)
  <2>1. Solvent(s.delegations, Withdrawn(s.delegations, s.rewards, D), s.commission,
                NotOutstanding(s.outstanding, s.rewards, D),
                s.communityPool + Total(Fractions(s.rewards, D), D),
                s.moduleBalance - Total(Coins(s.rewards, D), D))
    BY Zenon, <1>3, WithdrawSolvent
  <2> QED BY Zenon, <1>1, <1>2, <2>1
<1>5. ASSUME NEW d \in s.delegations
      PROVE  Explained(w.startingInfo[d], s.slashEvents[d[2]], s.slashes[d[2]], h)
  <2>1. CASE d \notin D
    <3>1. w.startingInfo[d] = s.startingInfo[d]
      BY <1>1, <2>1
    <3>2. Explained(s.startingInfo[d], s.slashEvents[d[2]], s.slashes[d[2]], h)
      BY DEF Sound
    <3> QED BY <3>1, <3>2
  <2>2. CASE d \in D
    <3>1. w.startingInfo[d] = [height |-> h, slashes |-> s.slashes[d[2]]]
      BY <1>1, <2>2 DEF Info
    <3>2. s.slashes[d[2]] \in Nat
      <4>1. d[2] \in Validators
        BY <1>3
      <4> QED BY <4>1 DEF Sound, Counted
    <3> QED BY <1>3, <3>1, <3>2 DEF Explained
  <2> QED BY <2>1, <2>2
<1>6. \A d \in w.delegations : Explained(w.startingInfo[d], w.slashEvents[d[2]],
                                         w.slashes[d[2]], h)
  BY Zenon, <1>2, <1>5
<1> QED BY Zenon, <1>1, <1>2, <1>4, <1>6 DEF Sound

\* One delegation more or fewer: the records are referenced as often as counted.
LEMMA CountedMove ==
    ASSUME NEW n \in Nat, NEW refs, NEW E, NEW m, Counted(n, refs, E, m)
    PROVE  /\ Counted(n + 1, refs + 1, E, m)
           /\ n > 0 => Counted(n - 1, refs - 1, E, m)
<1>1. Cardinality(E) \in Nat
  BY FS_CardinalityType DEF Counted
<1> QED BY <1>1 DEF Counted

\* So does removing a delegation that has withdrawn and is not its validator's last.
LEMMA RemovedSound ==
    ASSUME NEW s, NEW w, NEW h, Sound(s, h), NEW d \in s.delegations,
           Of(s.delegations, d[2]) # {d}, s.rewards[d] = 0, Removed(s, w, d)
    PROVE  Sound(w, h)
<1>1. /\ IsState(w)
      /\ w.delegations = s.delegations \ {d}
      /\ w.rewards = Without(s.rewards, s.delegations, d)
      /\ w.startingInfo = Without(s.startingInfo, s.delegations, d)
      /\ w.references = [s.references EXCEPT ![d[2]] = @ - 1]
  BY Zenon DEF Removed
<1>2. /\ w.jailed = s.jailed /\ w.powerIndex = s.powerIndex /\ w.lastVals = s.lastVals
      /\ w.ubds = s.ubds /\ w.reds = s.reds /\ w.commission = s.commission
      /\ w.outstanding = s.outstanding /\ w.communityPool = s.communityPool
      /\ w.moduleBalance = s.moduleBalance
      /\ w.slashes = s.slashes /\ w.slashEvents = s.slashEvents
  BY Zenon DEF Removed, Same, Fields
<1>3. /\ s.delegations \in SUBSET (Delegators \X Validators)
      /\ Solvent(s.delegations, s.rewards, s.commission, s.outstanding, s.communityPool,
                 s.moduleBalance)
      /\ DOMAIN s.references = Validators
      /\ \A v \in Validators : Of(s.delegations, v) # {}
  BY Zenon DEF Sound, Delegated
<1>4. Solvent(w.delegations, w.rewards, w.commission, w.outstanding, w.communityPool,
              w.moduleBalance)
  <2>1. Solvent(s.delegations \ {d}, Without(s.rewards, s.delegations, d), s.commission,
                s.outstanding, s.communityPool, s.moduleBalance)
    BY Zenon, <1>3, DropSolvent
  <2> QED BY Zenon, <1>1, <1>2, <2>1
<1>5. /\ d[2] \in Validators
      /\ Of(w.delegations, d[2]) = Of(s.delegations, d[2]) \ {d} /\ d \in Of(s.delegations, d[2])
      /\ \A v \in Validators \ {d[2]} : Of(w.delegations, v) = Of(s.delegations, v)
  BY <1>1, <1>3 DEF Of
<1>6. Delegated(w.delegations)
  <2>1. w.delegations \subseteq Delegators \X Validators
    BY <1>1, <1>3
  <2>2. Of(w.delegations, d[2]) # {}
    BY <1>5
  <2>3. \A v \in Validators \ {d[2]} : Of(w.delegations, v) # {}
    BY <1>3, <1>5
  <2> QED BY <2>1, <2>2, <2>3, Zenon DEF Delegated
<1>7. /\ DOMAIN w.references = Validators
      /\ w.references[d[2]] = s.references[d[2]] - 1
      /\ \A v \in Validators \ {d[2]} : w.references[v] = s.references[v]
  BY <1>1, <1>3, <1>5
<1>8. ASSUME NEW v \in Validators
      PROVE  Counted(Cardinality(Of(w.delegations, v)), w.references[v], s.slashEvents[v],
                     s.slashes[v])
  <2>1. Counted(Cardinality(Of(s.delegations, v)), s.references[v], s.slashEvents[v],
                s.slashes[v])
    BY DEF Sound
  <2>2. CASE v # d[2]
    BY <1>5, <1>7, <2>1, <2>2
  <2>3. CASE v = d[2]
    <3> DEFINE S == Of(s.delegations, v)
               n == Cardinality(S)
    <3>1. d \in S /\ IsFiniteSet(S) /\ n \in Nat
      BY <1>3, <1>5, <2>3, FiniteDelegations
    <3>2. Cardinality(S \ {d}) = n - 1 /\ Cardinality(S \ {d}) \in Nat
      <4> HIDE DEF S
      <4> QED BY <3>1, FS_RemoveElement, FS_CardinalityType
    <3>3. Counted(n, s.references[v], s.slashEvents[v], s.slashes[v])
      BY <2>1
    <3>4. Of(w.delegations, v) = S \ {d}
      BY <1>5, <2>3
    <3> HIDE DEF n, S
    <3>5. Counted(n - 1, s.references[v] - 1, s.slashEvents[v], s.slashes[v])
      <4>1. n > 0
        BY <3>1, <3>2
      <4> QED BY <3>1, <3>3, <4>1, CountedMove
    <3>6. Cardinality(Of(w.delegations, v)) = n - 1 /\ w.references[v] = s.references[v] - 1
      BY <1>7, <2>3, <3>2, <3>4
    <3> QED BY Zenon, <3>5, <3>6
  <2> QED BY <2>2, <2>3
<1>9. ASSUME NEW e \in w.delegations
      PROVE  Explained(w.startingInfo[e], s.slashEvents[e[2]], s.slashes[e[2]], h)
  <2>1. e \in s.delegations /\ w.startingInfo[e] = s.startingInfo[e]
    BY <1>1 DEF Without
  <2>2. Explained(s.startingInfo[e], s.slashEvents[e[2]], s.slashes[e[2]], h)
    BY <2>1 DEF Sound
  <2> QED BY <2>1, <2>2
<1>10. /\ \A v \in Validators : Counted(Cardinality(Of(w.delegations, v)), w.references[v],
                                        w.slashEvents[v], w.slashes[v])
       /\ \A e \in w.delegations : Explained(w.startingInfo[e], w.slashEvents[e[2]],
                                             w.slashes[e[2]], h)
  BY Zenon, <1>2, <1>8, <1>9
<1> QED BY Zenon, <1>1, <1>2, <1>4, <1>6, <1>7, <1>10 DEF Sound

\* So does an unbonding entry.
LEMMA UndelegatedSound ==
    ASSUME NEW s, NEW w, NEW h, Sound(s, h), NEW entry \in Entry, Undelegated(s, w, entry)
    PROVE  Sound(w, h)
<1>1. IsState(w) /\ w.ubds = s.ubds \cup {entry}
  BY Zenon DEF Undelegated
<1>2. /\ w.jailed = s.jailed /\ w.powerIndex = s.powerIndex /\ w.lastVals = s.lastVals
      /\ w.reds = s.reds /\ w.delegations = s.delegations
      /\ w.startingInfo = s.startingInfo /\ w.rewards = s.rewards
      /\ w.commission = s.commission /\ w.references = s.references
      /\ w.outstanding = s.outstanding /\ w.communityPool = s.communityPool
      /\ w.moduleBalance = s.moduleBalance
      /\ w.slashes = s.slashes /\ w.slashEvents = s.slashEvents
  BY Zenon DEF Undelegated, Same, Fields
<1>3. w.ubds \subseteq Entry
  BY <1>1 DEF Sound
<1> QED BY Zenon, <1>1, <1>2, <1>3 DEF Sound

\* So does the delegation to the other validator that a redelegation creates.
LEMMA AddedSound ==
    ASSUME NEW s, NEW w, NEW h, Sound(s, h), NEW dst \in (Delegators \X Validators) \ s.delegations,
           NEW entry \in Entry,
           Added(s, w, dst, [height |-> h, slashes |-> s.slashes[dst[2]]], entry)
    PROVE  Sound(w, h)
<1> DEFINE info == [height |-> h, slashes |-> s.slashes[dst[2]]]
           all == s.delegations \cup {dst}
<1>1. /\ IsState(w)
      /\ w.delegations = all
      /\ w.rewards = [k \in all |-> IF k = dst THEN 0 ELSE s.rewards[k]]
      /\ w.startingInfo = [k \in all |-> IF k = dst THEN info ELSE s.startingInfo[k]]
      /\ w.references = Plus(s.references, dst[2], 1)
      /\ w.reds = s.reds \cup {entry}
  BY Zenon DEF Added
<1>2. /\ w.jailed = s.jailed /\ w.powerIndex = s.powerIndex /\ w.lastVals = s.lastVals
      /\ w.ubds = s.ubds /\ w.commission = s.commission
      /\ w.outstanding = s.outstanding /\ w.communityPool = s.communityPool
      /\ w.moduleBalance = s.moduleBalance
      /\ w.slashes = s.slashes /\ w.slashEvents = s.slashEvents
  BY Zenon DEF Added, Same, Fields
<1>3. /\ s.delegations \in SUBSET (Delegators \X Validators)
      /\ Solvent(s.delegations, s.rewards, s.commission, s.outstanding, s.communityPool,
                 s.moduleBalance)
      /\ DOMAIN s.references = Validators /\ h \in Nat
      /\ \A v \in Validators : Of(s.delegations, v) # {}
  BY Zenon DEF Sound, Delegated
<1>4. Solvent(w.delegations, w.rewards, w.commission, w.outstanding, w.communityPool,
              w.moduleBalance)
  <2>1. Solvent(all, [k \in all |-> IF k = dst THEN 0 ELSE s.rewards[k]], s.commission,
                s.outstanding, s.communityPool, s.moduleBalance)
    BY Zenon, <1>3, AddSolvent
  <2> QED BY Zenon, <1>1, <1>2, <2>1
<1>5. /\ dst[2] \in Validators
      /\ Of(w.delegations, dst[2]) = Of(s.delegations, dst[2]) \cup {dst}
      /\ dst \notin Of(s.delegations, dst[2])
      /\ \A v \in Validators \ {dst[2]} : Of(w.delegations, v) = Of(s.delegations, v)
  BY <1>1, <1>3 DEF Of
<1>6. Delegated(w.delegations) /\ w.reds \subseteq Entry
  <2>1. w.delegations \subseteq Delegators \X Validators
    BY <1>1, <1>3
  <2>2. ASSUME NEW v \in Validators PROVE Of(w.delegations, v) # {}
    BY <1>3, <1>5
  <2>3. w.reds \subseteq Entry
    BY <1>1 DEF Sound
  <2> QED BY <2>1, <2>2, <2>3 DEF Delegated
<1>7. /\ DOMAIN w.references = Validators
      /\ w.references[dst[2]] = s.references[dst[2]] + 1
      /\ \A v \in Validators \ {dst[2]} : w.references[v] = s.references[v]
  BY <1>1, <1>3, <1>5 DEF Plus
<1>8. ASSUME NEW v \in Validators
      PROVE  Counted(Cardinality(Of(w.delegations, v)), w.references[v], s.slashEvents[v],
                     s.slashes[v])
  <2>1. Counted(Cardinality(Of(s.delegations, v)), s.references[v], s.slashEvents[v],
                s.slashes[v])
    BY DEF Sound
  <2>2. CASE v # dst[2]
    BY <1>5, <1>7, <2>1, <2>2
  <2>3. CASE v = dst[2]
    <3> DEFINE S == Of(s.delegations, v)
               n == Cardinality(S)
    <3>1. dst \notin S /\ IsFiniteSet(S) /\ n \in Nat
      BY <1>3, <1>5, <2>3, FiniteDelegations
    <3>2. Cardinality(S \cup {dst}) = n + 1
      <4> HIDE DEF S
      <4> QED BY <3>1, FS_AddElement
    <3>3. Counted(n, s.references[v], s.slashEvents[v], s.slashes[v])
      BY <2>1
    <3>4. Of(w.delegations, v) = S \cup {dst}
      BY <1>5, <2>3
    <3> HIDE DEF n, S
    <3>5. Counted(n + 1, s.references[v] + 1, s.slashEvents[v], s.slashes[v])
      BY <3>1, <3>3, CountedMove
    <3>6. Cardinality(Of(w.delegations, v)) = n + 1 /\ w.references[v] = s.references[v] + 1
      BY <1>7, <2>3, <3>2, <3>4
    <3> QED BY Zenon, <3>5, <3>6
  <2> QED BY <2>2, <2>3
<1>9. ASSUME NEW e \in w.delegations
      PROVE  Explained(w.startingInfo[e], s.slashEvents[e[2]], s.slashes[e[2]], h)
  <2>1. CASE e # dst
    <3>1. e \in s.delegations /\ w.startingInfo[e] = s.startingInfo[e]
      BY <1>1, <2>1
    <3>2. Explained(s.startingInfo[e], s.slashEvents[e[2]], s.slashes[e[2]], h)
      BY <3>1 DEF Sound
    <3> QED BY <3>1, <3>2
  <2>2. CASE e = dst
    <3>1. w.startingInfo[e] = [height |-> h, slashes |-> s.slashes[e[2]]]
      BY <1>1, <2>2
    <3>2. s.slashes[e[2]] \in Nat
      BY <1>5, <2>2 DEF Sound, Counted
    <3> QED BY <1>3, <3>1, <3>2 DEF Explained
  <2> QED BY <2>1, <2>2
<1>10. /\ \A v \in Validators : Counted(Cardinality(Of(w.delegations, v)), w.references[v],
                                        w.slashEvents[v], w.slashes[v])
       /\ \A e \in w.delegations : Explained(w.startingInfo[e], w.slashEvents[e[2]],
                                             w.slashes[e[2]], h)
  BY Zenon, <1>2, <1>8, <1>9
<1> QED BY Zenon, <1>1, <1>2, <1>4, <1>6, <1>7, <1>10 DEF Sound

\* What RemoveDelegation leaves is sound; slashes and the other delegations stay.
LEMMA RemoveDelegationSound ==
    ASSUME NEW s, NEW h, Sound(s, h), NEW d \in s.delegations, Of(s.delegations, d[2]) # {d}
    PROVE  /\ Sound(RemoveDelegation(s, d, h), h)
           /\ RemoveDelegation(s, d, h).delegations = s.delegations \ {d}
           /\ RemoveDelegation(s, d, h).slashes = s.slashes
<1> DEFINE w == WithdrawDelegationRewards(s, {d}, h)
           r == RemoveDelegation(s, d, h)
<1>1. RewardsWithdrawn(s, w, {d}, h)
  BY WithdrawDelegationRewardsFields DEF Sound
<1>2. Sound(w, h)
  BY <1>1, RewardsWithdrawnSound
<1>3. /\ IsState(w) /\ w.rewards = Withdrawn(s.delegations, s.rewards, {d})
      /\ w.delegations = s.delegations /\ w.slashes = s.slashes
  BY Zenon, <1>1 DEF RewardsWithdrawn, Same, Fields
<1>4. Removed(w, r, d)
  BY <1>3, RemoveDelegationFields
<1> HIDE DEF w, r
<1>5. w.rewards[d] = 0
  BY <1>3 DEF Withdrawn
<1>6. Sound(r, h)
  BY <1>2, <1>3, <1>4, <1>5, RemovedSound
<1>7. r.delegations = s.delegations \ {d} /\ r.slashes = s.slashes
  BY Zenon, <1>3, <1>4 DEF Removed, Same, Fields
<1> QED BY <1>6, <1>7 DEF r

\* Every block leaves the state sound at its height.
LEMMA SuccessorsSound ==
    ASSUME NEW s, NEW h, Sound(s, h), NEW w \in Successors(s, h)
    PROVE  Sound(w, h)
<1>1. IsState(s) /\ s.delegations \in SUBSET (Delegators \X Validators) /\ h \in Nat
  BY Zenon DEF Sound, Delegated
<1>2. \/ \E v \in s.lastVals : w = AllocateTokens(s, v)
      \/ \E v \in s.lastVals : w = Slash(s, v, h)
      \/ \E v \in s.jailed : w = Unjail(s, v, h)
      \/ \E d \in s.delegations : Of(s.delegations, d[2]) # {d} /\ w = Undelegate(s, d, h)
      \/ \E d \in s.delegations, v \in Validators :
           /\ Of(s.delegations, d[2]) # {d} /\ <<d[1], v>> \notin s.delegations
           /\ w = BeginRedelegate(s, d, v, h)
  BY Zenon DEF Successors
<1>3. CASE \E v \in s.lastVals : w = AllocateTokens(s, v)
  BY <1>1, <1>3, AllocateTokensFields, AllocatedSound
<1>4. CASE \E v \in s.lastVals : w = Slash(s, v, h)
  BY <1>1, <1>4, SlashFields, SlashedSound
<1>5. CASE \E v \in s.jailed : w = Unjail(s, v, h)
  BY <1>1, <1>5, UnjailFields, UnjailedSound
<1>6. ASSUME NEW d \in s.delegations, Of(s.delegations, d[2]) # {d}, w = Undelegate(s, d, h)
      PROVE  Sound(w, h)
  <2> DEFINE r == RemoveDelegation(s, d, h)
             entry == [of |-> d, CreationHeight |-> h]
  <2>1. Sound(r, h)
    BY <1>6, RemoveDelegationSound
  <2>2. Undelegated(r, w, entry)
    BY <1>6, <2>1, UndelegateFields DEF Sound
  <2>3. entry \in Entry
    BY <1>1 DEF Entry
  <2> HIDE DEF r, entry
  <2> QED BY <2>1, <2>2, <2>3, UndelegatedSound
<1>7. ASSUME NEW d \in s.delegations, NEW v \in Validators,
             Of(s.delegations, d[2]) # {d}, <<d[1], v>> \notin s.delegations,
             w = BeginRedelegate(s, d, v, h)
      PROVE  Sound(w, h)
  <2> DEFINE r == RemoveDelegation(s, d, h)
             entry == [of |-> d, CreationHeight |-> h]
             dst == <<d[1], v>>
  <2>1. Sound(r, h) /\ r.delegations = s.delegations \ {d} /\ r.slashes = s.slashes
    BY <1>7, RemoveDelegationSound
  <2>2. Added(r, w, dst, Info(s, v, h), entry)
    BY <1>7, <2>1, BeginRedelegateFields DEF Sound
  <2>3. entry \in Entry
    BY <1>1 DEF Entry
  <2>4. dst \in (Delegators \X Validators) \ r.delegations /\ dst[2] = v
    BY <1>1, <1>7, <2>1
  <2> HIDE DEF r, entry, dst
  <2>5. Added(r, w, dst, [height |-> h, slashes |-> r.slashes[dst[2]]], entry)
    BY <2>1, <2>2, <2>4 DEF Info
  <2> QED BY <2>1, <2>3, <2>4, <2>5, AddedSound
<1> QED BY Zenon, <1>2, <1>3, <1>4, <1>5, <1>6, <1>7

-----------------------------------------------------------------------------
(* The export keeps it sound.                                              *)

\* WithdrawValidatorCommission, of every validator.
CommissionWithdrawn(s, w) ==
    /\ IsState(w) /\ Same(s, w, {"commission", "outstanding", "moduleBalance"})
    /\ w.commission = Fractions(s.commission, Validators)
    /\ w.outstanding = CommissionPaid(s.outstanding, s.commission)
    /\ w.moduleBalance = s.moduleBalance - Total(Coins(s.commission, Validators), Validators)

\* ClearDistribution, ReinitValidators and ReinitDelegations together.
Reinitialized(s, w) ==
    /\ IsState(w)
    /\ Same(s, w, {"slashEvents", "references", "communityPool", "outstanding", "commission",
                   "startingInfo"})
    /\ w.slashEvents = [v \in Validators |-> {}]
    /\ w.references = [v \in Validators |-> 1 + Cardinality(Of(s.delegations, v))]
    /\ w.communityPool = s.communityPool + Total(s.outstanding, Validators)
    /\ w.outstanding = [v \in Validators |-> 0] /\ w.commission = [v \in Validators |-> 0]
    /\ w.startingInfo = [d \in s.delegations |-> Info(s, d[2], 0)]

\* ResetStaking, ApplyAndReturnValidatorSetUpdates and ResetSigningInfos together.
Reset(s, w, allowed) ==
    /\ IsState(w)
    /\ Same(s, w, {"reds", "ubds", "UnbondingHeight", "StartHeight", "jailed", "lastVals"})
    /\ w.reds = AtZero(s.reds) /\ w.ubds = AtZero(s.ubds)
    /\ w.UnbondingHeight = [v \in Validators |-> 0] /\ w.StartHeight = [v \in Validators |-> 0]
    /\ w.jailed = s.jailed \cup IF allowed = {} THEN {} ELSE Validators \ allowed
    /\ w.lastVals = s.powerIndex

\* WithdrawValidatorCommission.
LEMMA WithdrawValidatorCommissionFields ==
    ASSUME NEW s, IsState(s)
    PROVE  CommissionWithdrawn(s, WithdrawValidatorCommission(s))
<1> DEFINE coins == [v \in Validators |-> s.commission[v] \div Unit]
<1>1. WithdrawValidatorCommission(s) =
        [s EXCEPT !.commission = [v \in Validators |-> s.commission[v] % Unit],
                  !.outstanding = [v \in Validators |-> s.outstanding[v] - Unit * coins[v]],
                  !.moduleBalance = @ - Total(coins, Validators)]
  BY Zenon DEF WithdrawValidatorCommission
<1>2. /\ Coins(s.commission, Validators) = coins
      /\ Fractions(s.commission, Validators) = [v \in Validators |-> s.commission[v] % Unit]
      /\ CommissionPaid(s.outstanding, s.commission)
           = [v \in Validators |-> s.outstanding[v] - Unit * coins[v]]
  BY DEF Coins, Fractions, CommissionPaid
<1> HIDE DEF coins
<1> QED BY Zenon, <1>1, <1>2 DEF IsState, Fields, Same, CommissionWithdrawn

\* The distribution state from scratch.
LEMMA ReinitFields ==
    ASSUME NEW s, IsState(s)
    PROVE  Reinitialized(s, ReinitDelegations(ReinitValidators(ClearDistribution(s)), 0))
<1> DEFINE a == ClearDistribution(s)
           b == ReinitValidators(a)
           w == ReinitDelegations(b, 0)
<1>1. /\ IsState(a) /\ Same(s, a, {"slashEvents", "references"})
      /\ a.slashEvents = [v \in Validators |-> {}]
  BY Zenon DEF ClearDistribution, IsState, Fields, Same
<1>2. /\ IsState(b) /\ Same(a, b, {"communityPool", "outstanding", "commission", "references"})
      /\ b.communityPool = a.communityPool + Total(a.outstanding, Validators)
      /\ b.outstanding = [v \in Validators |-> 0] /\ b.commission = [v \in Validators |-> 0]
      /\ b.references = [v \in Validators |-> 1]
  <2> HIDE DEF a
  <2> QED BY Zenon, <1>1 DEF ReinitValidators, IsState, Fields, Same
<1>3. /\ IsState(w) /\ Same(b, w, {"references", "startingInfo"})
      /\ w.references = [v \in Validators |-> b.references[v] + Cardinality(Of(b.delegations, v))]
      /\ w.startingInfo = [d \in b.delegations |-> Info(b, d[2], 0)]
  <2> HIDE DEF b
  <2> QED BY Zenon, <1>2 DEF ReinitDelegations, Info, IsState, Fields, Same
<1> HIDE DEF a, b, w
<1>4. /\ b.delegations = s.delegations /\ b.slashes = s.slashes
      /\ a.communityPool = s.communityPool /\ a.outstanding = s.outstanding
  BY Zenon, <1>1, <1>2 DEF Same, Fields
<1>5. /\ w.communityPool = s.communityPool + Total(s.outstanding, Validators)
      /\ w.outstanding = [v \in Validators |-> 0] /\ w.commission = [v \in Validators |-> 0]
      /\ w.slashEvents = [v \in Validators |-> {}]
  BY Zenon, <1>1, <1>2, <1>3, <1>4 DEF Same, Fields
<1>6. Same(s, w, {"slashEvents", "references", "communityPool", "outstanding", "commission",
                  "startingInfo"})
  BY Zenon, <1>1, <1>2, <1>3 DEF Same, Fields
<1>7. w.startingInfo = [d \in s.delegations |-> Info(s, d[2], 0)]
  BY Zenon, <1>3, <1>4 DEF Info
<1>8. w.references = [v \in Validators |-> 1 + Cardinality(Of(s.delegations, v))]
  BY <1>2, <1>3, <1>4
<1>9. Reinitialized(s, w)
  BY Zenon, <1>3, <1>5, <1>6, <1>7, <1>8 DEF Reinitialized
<1> QED BY <1>9 DEF w, b, a

\* Heights and the validator set from scratch.
LEMMA ResetFields ==
    ASSUME NEW s, IsState(s), NEW allowed
    PROVE  /\ Reset(s, ResetSigningInfos(ApplyAndReturnValidatorSetUpdates(
                           ResetStaking(s, allowed))), allowed)
           /\ ResetStaking(s, allowed).jailed
                = s.jailed \cup IF allowed = {} THEN {} ELSE Validators \ allowed
           /\ ResetStaking(s, allowed).powerIndex = s.powerIndex
<1> DEFINE a == ResetStaking(s, allowed)
           b == ApplyAndReturnValidatorSetUpdates(a)
           w == ResetSigningInfos(b)
           J == s.jailed \cup IF allowed = {} THEN {} ELSE Validators \ allowed
<1>1. /\ IsState(a) /\ Same(s, a, {"reds", "ubds", "UnbondingHeight", "jailed"})
      /\ a.reds = AtZero(s.reds) /\ a.ubds = AtZero(s.ubds)
      /\ a.UnbondingHeight = [v \in Validators |-> 0]
      /\ a.jailed = IF allowed = {} THEN s.jailed ELSE s.jailed \cup (Validators \ allowed)
  BY Zenon DEF ResetStaking, IsState, Fields, Same
<1>2. IsState(b) /\ Same(a, b, {"lastVals"}) /\ b.lastVals = a.powerIndex
  <2> HIDE DEF a
  <2> QED BY Zenon, <1>1 DEF ApplyAndReturnValidatorSetUpdates, IsState, Fields, Same
<1>3. IsState(w) /\ Same(b, w, {"StartHeight"}) /\ w.StartHeight = [v \in Validators |-> 0]
  <2> HIDE DEF b
  <2> QED BY Zenon, <1>2 DEF ResetSigningInfos, IsState, Fields, Same
<1> HIDE DEF a, b, w
<1>4. a.jailed = J
  <2>1. CASE allowed = {}
    BY <1>1, <2>1
  <2>2. CASE allowed # {}
    BY <1>1, <2>2
  <2> QED BY <2>1, <2>2
<1> HIDE DEF J
<1>5. Same(s, w, {"reds", "ubds", "UnbondingHeight", "StartHeight", "jailed", "lastVals"})
  BY Zenon, <1>1, <1>2, <1>3 DEF Same, Fields
<1>6. /\ w.reds = AtZero(s.reds) /\ w.ubds = AtZero(s.ubds)
      /\ w.UnbondingHeight = [v \in Validators |-> 0] /\ w.StartHeight = [v \in Validators |-> 0]
      /\ w.jailed = J
      /\ w.lastVals = s.powerIndex /\ a.powerIndex = s.powerIndex
  BY Zenon, <1>1, <1>2, <1>3, <1>4 DEF Same, Fields
<1>7. Reset(s, w, allowed)
  BY Zenon, <1>3, <1>5, <1>6 DEF Reset, J
<1> QED BY Zenon, <1>4, <1>6, <1>7 DEF w, b, a, J

\* A sound state passes the invariants that the crisis module asserts.
LEMMA SoundPasses ==
    ASSUME NEW s, NEW h, Sound(s, h)
    PROVE  CrisisInvariants(s)
<1>1. /\ Unit * s.moduleBalance = s.communityPool + Total(s.outstanding, Validators)
      /\ \A v \in Validators :
           s.outstanding[v] >= s.commission[v] + Total(s.rewards, Of(s.delegations, v))
  BY Zenon DEF Sound, Solvent
<1>2. \A v \in Validators :
        s.references[v] = 1 + Cardinality(Of(s.delegations, v)) + Cardinality(s.slashEvents[v])
  BY Zenon DEF Sound, Counted
<1>3. \A d \in s.delegations : Computable(s, d)
  BY Zenon DEF Sound, Explained, Computable
<1> QED BY Zenon, <1>1, <1>2, <1>3 DEF CrisisInvariants

\* WithdrawValidatorCommission leaves the state sound.
LEMMA CommissionWithdrawnSound ==
    ASSUME NEW s, NEW w, NEW h, Sound(s, h), CommissionWithdrawn(s, w)
    PROVE  Sound(w, h)
<1>1. /\ IsState(w)
      /\ w.commission = Fractions(s.commission, Validators)
      /\ w.outstanding = CommissionPaid(s.outstanding, s.commission)
      /\ w.moduleBalance = s.moduleBalance - Total(Coins(s.commission, Validators), Validators)
  BY Zenon DEF CommissionWithdrawn
<1>2. /\ w.jailed = s.jailed /\ w.powerIndex = s.powerIndex /\ w.lastVals = s.lastVals
      /\ w.ubds = s.ubds /\ w.reds = s.reds /\ w.delegations = s.delegations
      /\ w.rewards = s.rewards /\ w.startingInfo = s.startingInfo
      /\ w.references = s.references /\ w.communityPool = s.communityPool
      /\ w.slashes = s.slashes /\ w.slashEvents = s.slashEvents
  BY Zenon DEF CommissionWithdrawn, Same, Fields
<1>3. /\ s.delegations \in SUBSET (Delegators \X Validators)
      /\ Solvent(s.delegations, s.rewards, s.commission, s.outstanding, s.communityPool,
                 s.moduleBalance)
  BY Zenon DEF Sound, Delegated
<1>4. Solvent(w.delegations, w.rewards, w.commission, w.outstanding, w.communityPool,
              w.moduleBalance)
  <2>1. Solvent(s.delegations, s.rewards, Fractions(s.commission, Validators),
                CommissionPaid(s.outstanding, s.commission), s.communityPool,
                s.moduleBalance - Total(Coins(s.commission, Validators), Validators))
    BY Zenon, <1>3, CommissionSolvent
  <2> QED BY Zenon, <1>1, <1>2, <2>1
<1> QED BY Zenon, <1>1, <1>2, <1>4 DEF Sound

\* Once every reward is withdrawn, what is still outstanding can go to the pool.
LEMMA ScrapsSolvent ==
    ASSUME NEW dels \in SUBSET (Delegators \X Validators), NEW r, NEW c, NEW o, NEW p, NEW b,
           Solvent(dels, r, c, o, p, b), \A d \in dels : r[d] = 0
    PROVE  Solvent(dels, r, [v \in Validators |-> 0], [v \in Validators |-> 0],
                   p + Total(o, Validators), b)
<1> DEFINE zero == [v \in Validators |-> 0]
<1>1. /\ r \in [dels -> Nat] /\ o \in [Validators -> Int] /\ p \in Int /\ b \in Int
      /\ Unit * b = p + Total(o, Validators)
  BY DEF Solvent
<1>2. IsFiniteSet(Validators) /\ \A v \in Validators : IsFiniteSet(Of(dels, v))
  BY FiniteDelegations
<1>3. /\ zero \in [Validators -> Nat] /\ zero \in [Validators -> Int]
      /\ \A v \in Validators : zero[v] = 0
  OBVIOUS
<1> HIDE DEF zero
<1>5. Total(zero, Validators) = 0
  BY <1>2, <1>3, TotalZero
<1>6. ASSUME NEW v \in Validators PROVE zero[v] >= zero[v] + Total(r, Of(dels, v))
  <2>1. \A d \in Of(dels, v) : r[d] = 0
    BY DEF Of
  <2>2. Total(r, Of(dels, v)) = 0
    BY <1>2, <2>1, TotalZero
  <2> QED BY <1>3, <2>2
<1>7. Total(o, Validators) \in Int
  <2>1. \A v \in Validators : o[v] \in Int
    BY <1>1
  <2> QED BY <1>2, <2>1, TotalType
<1>8. /\ p + Total(o, Validators) \in Int
      /\ Unit * b = (p + Total(o, Validators)) + Total(zero, Validators)
  BY <1>1, <1>5, <1>7
<1>9. Solvent(dels, r, zero, zero, p + Total(o, Validators), b)
  BY <1>1, <1>3, <1>6, <1>8 DEF Solvent
<1> QED BY <1>9 DEF zero

\* The distribution state from scratch is sound at height zero.
LEMMA ReinitializedSound ==
    ASSUME NEW s, NEW w, NEW h, Sound(s, h), \A d \in s.delegations : s.rewards[d] = 0,
           Reinitialized(s, w)
    PROVE  Sound(w, 0)
<1>1. /\ IsState(w)
      /\ w.slashEvents = [v \in Validators |-> {}]
      /\ w.references = [v \in Validators |-> 1 + Cardinality(Of(s.delegations, v))]
      /\ w.communityPool = s.communityPool + Total(s.outstanding, Validators)
      /\ w.outstanding = [v \in Validators |-> 0] /\ w.commission = [v \in Validators |-> 0]
      /\ w.startingInfo = [d \in s.delegations |-> Info(s, d[2], 0)]
  BY Zenon DEF Reinitialized
<1>2. /\ w.jailed = s.jailed /\ w.powerIndex = s.powerIndex /\ w.lastVals = s.lastVals
      /\ w.ubds = s.ubds /\ w.reds = s.reds /\ w.delegations = s.delegations
      /\ w.rewards = s.rewards /\ w.slashes = s.slashes /\ w.moduleBalance = s.moduleBalance
  BY Zenon DEF Reinitialized, Same, Fields
<1>3. /\ s.delegations \in SUBSET (Delegators \X Validators)
      /\ Solvent(s.delegations, s.rewards, s.commission, s.outstanding, s.communityPool,
                 s.moduleBalance)
  BY Zenon DEF Sound, Delegated
<1>4. Solvent(w.delegations, w.rewards, w.commission, w.outstanding, w.communityPool,
              w.moduleBalance)
  <2>1. Solvent(s.delegations, s.rewards, [v \in Validators |-> 0], [v \in Validators |-> 0],
                s.communityPool + Total(s.outstanding, Validators), s.moduleBalance)
    BY Zenon, <1>3, ScrapsSolvent
  <2> QED BY Zenon, <1>1, <1>2, <2>1
<1>5. /\ DOMAIN w.references = Validators /\ DOMAIN w.slashEvents = Validators
  BY <1>1
<1>6. \A v \in Validators : s.slashes[v] \in Nat
  BY DEF Sound, Counted
<1>7. ASSUME NEW v \in Validators
      PROVE  Counted(Cardinality(Of(s.delegations, v)), w.references[v], w.slashEvents[v],
                     s.slashes[v])
  <2> DEFINE n == Cardinality(Of(s.delegations, v))
  <2>1. n \in Nat
    BY <1>3, FiniteDelegations
  <2>2. w.references[v] = 1 + n /\ w.slashEvents[v] = {}
    BY <1>1
  <2> SUFFICES Counted(n, w.references[v], w.slashEvents[v], s.slashes[v])
    OBVIOUS
  <2> HIDE DEF n
  <2>3. IsFiniteSet({}) /\ Cardinality({}) = 0
    BY FS_EmptySet
  <2> QED BY <1>6, <2>1, <2>2, <2>3 DEF Counted
<1>8. ASSUME NEW d \in s.delegations
      PROVE  Explained(w.startingInfo[d], w.slashEvents[d[2]], s.slashes[d[2]], 0)
  <2>1. w.startingInfo[d] = [height |-> 0, slashes |-> s.slashes[d[2]]]
    BY <1>1 DEF Info
  <2>2. s.slashes[d[2]] \in Nat
    BY <1>3, <1>6
  <2> QED BY <2>1, <2>2 DEF Explained
<1>9. /\ \A v \in Validators : Counted(Cardinality(Of(w.delegations, v)), w.references[v],
                                       w.slashEvents[v], w.slashes[v])
      /\ \A d \in w.delegations : Explained(w.startingInfo[d], w.slashEvents[d[2]],
                                            w.slashes[d[2]], 0)
  BY Zenon, <1>2, <1>7, <1>8
<1>10. 0 \in Nat
  OBVIOUS
<1> QED BY Zenon, <1>1, <1>2, <1>4, <1>5, <1>9, <1>10 DEF Sound

\* Entries at height zero are entries.
LEMMA AtZeroType ==
    ASSUME NEW entries \in SUBSET Entry
    PROVE  AtZero(entries) \subseteq Entry /\ \A e \in AtZero(entries) : e.CreationHeight = 0
BY DEF AtZero, Entry

\* Staking from scratch is sound, unless a validator of the power index is jailed.
LEMMA ResetSound ==
    ASSUME NEW s, NEW w, NEW allowed, Sound(s, 0), Reset(s, w, allowed),
           w.jailed \cap s.powerIndex = {}
    PROVE  Sound(w, 0)
<1>1. /\ IsState(w)
      /\ w.reds = AtZero(s.reds) /\ w.ubds = AtZero(s.ubds)
      /\ w.jailed = s.jailed \cup IF allowed = {} THEN {} ELSE Validators \ allowed
      /\ w.lastVals = s.powerIndex
  BY Zenon DEF Reset
<1>2. /\ w.powerIndex = s.powerIndex /\ w.delegations = s.delegations
      /\ w.rewards = s.rewards /\ w.commission = s.commission
      /\ w.outstanding = s.outstanding /\ w.moduleBalance = s.moduleBalance
      /\ w.communityPool = s.communityPool
      /\ w.startingInfo = s.startingInfo /\ w.references = s.references
      /\ w.slashes = s.slashes /\ w.slashEvents = s.slashEvents
  BY Zenon DEF Reset, Same, Fields
<1>3. /\ InSet(s.jailed, s.powerIndex, s.lastVals)
      /\ s.reds \in SUBSET Entry /\ s.ubds \in SUBSET Entry
  BY Zenon DEF Sound
<1>4. w.reds \subseteq Entry /\ w.ubds \subseteq Entry
  BY <1>1, <1>3, AtZeroType
<1>5. InSet(w.jailed, w.powerIndex, w.lastVals)
  <2>1. w.jailed \subseteq Validators /\ s.jailed \subseteq w.jailed
    BY <1>1, <1>3 DEF InSet
  <2> QED BY <1>1, <1>2, <1>3, <2>1 DEF InSet
<1> QED BY Zenon, <1>1, <1>2, <1>4, <1>5 DEF Sound

\* Sound at height zero, and without a record of an earlier height.
Restarted(s, w) ==
    /\ Sound(w, 0)
    /\ w.jailed = s.jailed /\ w.powerIndex = s.powerIndex
    /\ w.slashEvents = [v \in Validators |-> {}]
    /\ \A d \in w.delegations : w.startingInfo[d].height = 0

\* The whole distribution part of prepForZeroHeightGenesis.
LEMMA RestartDistributionSound ==
    ASSUME NEW s, NEW h, Sound(s, h)
    PROVE  Restarted(s, RestartDistribution(s, h))
<1> DEFINE c == WithdrawValidatorCommission(s)
           p == WithdrawDelegationRewards(c, s.delegations, h)
           w == ReinitDelegations(ReinitValidators(ClearDistribution(p)), 0)
<1>1. CommissionWithdrawn(s, c)
  BY WithdrawValidatorCommissionFields DEF Sound
<1>2. /\ Sound(c, h)
      /\ c.delegations = s.delegations /\ c.jailed = s.jailed /\ c.powerIndex = s.powerIndex
  <2>1. Sound(c, h)
    BY <1>1, CommissionWithdrawnSound
  <2> HIDE DEF c
  <2> QED BY Zenon, <1>1, <2>1 DEF CommissionWithdrawn, Same, Fields
<1>3. RewardsWithdrawn(c, p, c.delegations, h)
  <2> HIDE DEF c
  <2>1. IsState(c)
    BY <1>2 DEF Sound
  <2> QED BY <1>2, <2>1, WithdrawDelegationRewardsFields
<1> HIDE DEF c
<1>4. /\ Sound(p, h)
      /\ p.delegations = c.delegations /\ p.jailed = c.jailed /\ p.powerIndex = c.powerIndex
      /\ p.rewards = Withdrawn(c.delegations, c.rewards, c.delegations)
  <2>1. Sound(p, h)
    BY <1>2, <1>3, RewardsWithdrawnSound
  <2> HIDE DEF p
  <2> QED BY Zenon, <1>3, <2>1 DEF RewardsWithdrawn, Same, Fields
<1>5. Reinitialized(p, w)
  <2> HIDE DEF p
  <2>1. IsState(p)
    BY <1>4 DEF Sound
  <2> QED BY <2>1, ReinitFields
<1> HIDE DEF p, w
<1>6. \A d \in p.delegations : p.rewards[d] = 0
  BY <1>4 DEF Withdrawn
<1>7. Sound(w, 0)
  BY <1>4, <1>5, <1>6, ReinitializedSound
<1>8. /\ w.jailed = p.jailed /\ w.powerIndex = p.powerIndex /\ w.delegations = p.delegations
      /\ w.slashEvents = [v \in Validators |-> {}]
      /\ w.startingInfo = [d \in p.delegations |-> Info(p, d[2], 0)]
  BY Zenon, <1>5 DEF Reinitialized, Same, Fields
<1>9. \A d \in w.delegations : w.startingInfo[d].height = 0
  BY <1>8 DEF Info
<1>10. RestartDistribution(s, h) = w
  BY DEF RestartDistribution, w, p, c
<1> QED BY <1>2, <1>4, <1>7, <1>8, <1>9, <1>10 DEF Restarted

\* Every place of a state that keeps a height.
Heightless(s) ==
    /\ \A v \in Validators : /\ s.UnbondingHeight[v] = 0 /\ s.StartHeight[v] = 0
                             /\ \A e \in s.slashEvents[v] : e.height = 0
    /\ \A d \in s.delegations : s.startingInfo[d].height = 0
    /\ \A e \in s.ubds \cup s.reds : e.CreationHeight = 0

\* The validators that a list of the allowed ones jails.
JailedBy(allowed) == IF allowed = {} THEN {} ELSE Validators \ allowed

\* prepForZeroHeightGenesis: what it writes is sound and without heights, and it
\* panics only over a validator of the power index that is off the list.
LEMMA PrepSound ==
    ASSUME NEW s, NEW h, Sound(s, h), NEW allowed \in SUBSET Validators
    PROVE  LET p == PrepForZeroHeightGenesis(s, h, allowed)
           IN  \/ /\ p.status = "panic"
                  /\ allowed # {} /\ ~ s.powerIndex \subseteq allowed
               \/ /\ p.status = "ok" /\ Sound(p.app, 0) /\ Heightless(p.app)
                  /\ p.app.jailed = s.jailed \cup JailedBy(allowed)
                  /\ p.app.lastVals = Validators \ p.app.jailed
<1> DEFINE d == RestartDistribution(s, h)
           reset == ResetStaking(d, allowed)
           w == ResetSigningInfos(ApplyAndReturnValidatorSetUpdates(reset))
           p == PrepForZeroHeightGenesis(s, h, allowed)
<1>1. /\ Sound(d, 0) /\ d.jailed = s.jailed /\ d.powerIndex = s.powerIndex
      /\ d.slashEvents = [v \in Validators |-> {}]
      /\ \A e \in d.delegations : d.startingInfo[e].height = 0
  <2>1. Restarted(s, d)
    BY RestartDistributionSound
  <2> HIDE DEF d
  <2> QED BY Zenon, <2>1 DEF Restarted
<1>2. /\ Reset(d, w, allowed)
      /\ reset.jailed = d.jailed \cup JailedBy(allowed) /\ reset.powerIndex = d.powerIndex
  <2>1. IsState(d)
    BY <1>1 DEF Sound
  <2> HIDE DEF d
  <2> QED BY Zenon, <2>1, ResetFields DEF JailedBy
<1>3. CrisisInvariants(s)
  BY SoundPasses
<1>4. p = IF reset.jailed \cap reset.powerIndex # {} THEN [status |-> "panic"]
          ELSE [status |-> "ok", app |-> w]
  BY <1>3 DEF PrepForZeroHeightGenesis
<1> HIDE DEF d, reset, w, p
<1>5. CASE reset.jailed \cap reset.powerIndex # {}
  <2>1. p.status = "panic"
    BY <1>4, <1>5
  <2>2. s.powerIndex = Validators \ s.jailed
    BY DEF Sound, InSet
  <2>3. allowed # {} /\ ~ s.powerIndex \subseteq allowed
    BY <1>1, <1>2, <1>5, <2>2 DEF JailedBy
  <2> QED BY <2>1, <2>3 DEF p
<1>6. CASE reset.jailed \cap reset.powerIndex = {}
  <2>1. p.status = "ok" /\ p.app = w
    BY <1>4, <1>6
  <2>2. /\ w.jailed = s.jailed \cup JailedBy(allowed)
        /\ w.UnbondingHeight = [v \in Validators |-> 0] /\ w.StartHeight = [v \in Validators |-> 0]
        /\ w.reds = AtZero(d.reds) /\ w.ubds = AtZero(d.ubds)
    BY Zenon, <1>1, <1>2 DEF Reset, JailedBy
  <2>3. w.jailed \cap d.powerIndex = {}
    BY <1>1, <1>2, <1>6, <2>2
  <2>4. Sound(w, 0)
    BY <1>1, <1>2, <2>3, ResetSound
  <2>5. w.lastVals = Validators \ w.jailed
    BY <2>4 DEF Sound, InSet
  <2>6. /\ w.slashEvents = d.slashEvents /\ w.delegations = d.delegations
        /\ w.startingInfo = d.startingInfo
    BY Zenon, <1>2 DEF Reset, Same, Fields
  <2>7. d.reds \in SUBSET Entry /\ d.ubds \in SUBSET Entry
    BY <1>1 DEF Sound
  <2>8. \A e \in w.ubds \cup w.reds : e.CreationHeight = 0
    BY <2>2, <2>7, AtZeroType
  <2>9. Heightless(w)
    BY <1>1, <2>2, <2>6, <2>8 DEF Heightless
  <2> QED BY <2>1, <2>2, <2>4, <2>5, <2>9 DEF p
<1> QED BY <1>5, <1>6

\* What an export of a sound state writes.
Written(s, h, zero, allowed, x) ==
    /\ x.status \in {"ok", "panic"}
    /\ x.from = s /\ x.forZeroHeight = zero /\ x.jailAllowedAddrs = allowed
    /\ x.Height = IF zero THEN 0 ELSE h + 1
    /\ x.status = "panic" => zero /\ allowed # {} /\ ~ s.powerIndex \subseteq allowed
    /\ x.status = "ok" =>
         /\ Sound(x.app, IF zero THEN 0 ELSE h)
         /\ zero => Heightless(x.app)
         /\ x.Validators = Validators \ x.app.jailed
         /\ x.app.jailed = s.jailed \cup IF zero THEN JailedBy(allowed) ELSE {}

\* ExportAppStateAndValidators.
LEMMA ExportSound ==
    ASSUME NEW s, NEW h, Sound(s, h), NEW zero \in BOOLEAN, NEW allowed \in SUBSET Validators
    PROVE  Written(s, h, zero, allowed, ExportAppStateAndValidators(s, h, zero, allowed))
<1> DEFINE x == ExportAppStateAndValidators(s, h, zero, allowed)
           q == PrepForZeroHeightGenesis(s, h, allowed)
<1>1. \/ q.status = "panic" /\ allowed # {} /\ ~ s.powerIndex \subseteq allowed
      \/ /\ q.status = "ok" /\ Sound(q.app, 0) /\ Heightless(q.app)
         /\ q.app.jailed = s.jailed \cup JailedBy(allowed)
         /\ q.app.lastVals = Validators \ q.app.jailed
  BY PrepSound
<1>2. CASE zero
  <2>1. x = [status |-> q.status,
             app |-> IF q.status = "ok" THEN q.app ELSE s,
             from |-> s,
             Validators |-> IF q.status = "ok" THEN q.app.lastVals ELSE {},
             Height |-> 0, forZeroHeight |-> zero, jailAllowedAddrs |-> allowed]
    BY <1>2 DEF ExportAppStateAndValidators
  <2> HIDE DEF x, q
  <2>2. /\ x.status = q.status /\ x.app = IF q.status = "ok" THEN q.app ELSE s
        /\ x.from = s /\ x.Validators = IF q.status = "ok" THEN q.app.lastVals ELSE {}
        /\ x.Height = 0 /\ x.forZeroHeight = zero /\ x.jailAllowedAddrs = allowed
    BY <2>1
  <2>3. CASE q.status = "panic"
    BY <1>1, <1>2, <2>2, <2>3 DEF x, Written
  <2>4. CASE q.status = "ok"
    BY <1>1, <1>2, <2>2, <2>4 DEF x, Written
  <2> QED BY <1>1, <2>3, <2>4
<1>3. CASE ~ zero
  <2>1. x = [status |-> "ok", app |-> s, from |-> s, Validators |-> s.lastVals,
             Height |-> h + 1, forZeroHeight |-> zero, jailAllowedAddrs |-> allowed]
    BY <1>3 DEF ExportAppStateAndValidators
  <2>2. s.lastVals = Validators \ s.jailed
    BY DEF Sound, InSet
  <2> HIDE DEF x
  <2>3. /\ x.status = "ok" /\ x.app = s /\ x.from = s /\ x.Validators = s.lastVals
        /\ x.Height = h + 1 /\ x.forZeroHeight = zero /\ x.jailAllowedAddrs = allowed
    BY <2>1
  <2> QED BY <1>3, <2>2, <2>3 DEF x, Written
<1> QED BY <1>2, <1>3

\* The new chain's state (InitChainer): what the staking module rebuilds is what was there.
LEMMA RestartedSound ==
    ASSUME NEW s, NEW h, Sound(s, h)
    PROVE  [s EXCEPT !.powerIndex = Validators \ s.jailed, !.lastVals = Validators \ s.jailed] = s
<1>1. /\ IsState(s)
      /\ s.powerIndex = Validators \ s.jailed /\ s.lastVals = Validators \ s.jailed
  BY Zenon DEF Sound, InSet
<1> QED BY Zenon, <1>1 DEF IsState, Fields

\* The genesis of the first chain.
LEMMA InitSound ==
    ASSUME Init
    PROVE  Sound(app, 0)
<1> DEFINE zero == [v \in Validators |-> 0]
<1>1. /\ IsState(app)
      /\ app.jailed = {} /\ app.powerIndex = Validators /\ app.lastVals = Validators
      /\ app.ubds = {} /\ app.reds = {} /\ app.delegations = InitialDelegations
  BY DEF Init, IsState, Fields
<1>2. /\ app.startingInfo = [d \in InitialDelegations |-> [height |-> 0, slashes |-> 0]]
      /\ app.rewards = [d \in InitialDelegations |-> 0]
      /\ app.commission = zero /\ app.outstanding = zero /\ app.slashes = zero
      /\ app.references = [v \in Validators |-> 1 + Cardinality(Of(InitialDelegations, v))]
      /\ app.slashEvents = [v \in Validators |-> {}]
      /\ app.communityPool = 0 /\ app.moduleBalance = 0
  BY DEF Init
<1>3. /\ zero \in [Validators -> Nat] /\ zero \in [Validators -> Int]
      /\ \A v \in Validators : zero[v] = 0
  OBVIOUS
<1> HIDE DEF zero
<1>4. /\ InitialDelegations \in SUBSET (Delegators \X Validators) /\ Unit \in Nat
      /\ IsFiniteSet(Validators)
      /\ \A v \in Validators : IsFiniteSet(Of(InitialDelegations, v))
                               /\ Cardinality(Of(InitialDelegations, v)) \in Nat
  BY ExportAssumption, FiniteDelegations
<1>5. Delegated(app.delegations)
  BY <1>1, ExportAssumption DEF Delegated, Of
<1>6. Solvent(app.delegations, app.rewards, app.commission, app.outstanding,
              app.communityPool, app.moduleBalance)
  <2>1. Total(zero, Validators) = 0
    BY <1>3, <1>4, TotalZero
  <2>2. app.rewards \in [InitialDelegations -> Nat]
        /\ \A d \in InitialDelegations : app.rewards[d] = 0
    BY <1>2
  <2>3. ASSUME NEW v \in Validators PROVE Total(app.rewards, Of(InitialDelegations, v)) = 0
    <3>1. \A d \in Of(InitialDelegations, v) : app.rewards[d] = 0
      BY <2>2 DEF Of
    <3> QED BY <1>4, <3>1, TotalZero
  <2>4. Solvent(InitialDelegations, app.rewards, zero, zero, 0, 0)
    BY <1>3, <1>4, <2>1, <2>2, <2>3 DEF Solvent
  <2> QED BY Zenon, <1>1, <1>2, <2>4
<1>7. ASSUME NEW v \in Validators
      PROVE  Counted(Cardinality(Of(app.delegations, v)), app.references[v],
                     app.slashEvents[v], app.slashes[v])
  <2> DEFINE n == Cardinality(Of(app.delegations, v))
  <2>1. n \in Nat /\ app.references[v] = 1 + n /\ app.slashEvents[v] = {} /\ app.slashes[v] = 0
    BY <1>1, <1>2, <1>3, <1>4
  <2> SUFFICES Counted(n, app.references[v], app.slashEvents[v], app.slashes[v])
    OBVIOUS
  <2> HIDE DEF n
  <2>2. IsFiniteSet({}) /\ Cardinality({}) = 0
    BY FS_EmptySet
  <2> QED BY <2>1, <2>2 DEF Counted
<1>8. ASSUME NEW d \in app.delegations
      PROVE  Explained(app.startingInfo[d], app.slashEvents[d[2]], app.slashes[d[2]], 0)
  <2>1. app.startingInfo[d] = [height |-> 0, slashes |-> 0] /\ app.slashes[d[2]] = 0
    BY <1>1, <1>2, <1>3, <1>4
  <2> QED BY <2>1 DEF Explained
<1>9. /\ DOMAIN app.references = Validators /\ DOMAIN app.slashes = Validators
      /\ DOMAIN app.slashEvents = Validators
  BY <1>2, <1>3
<1>10. InSet(app.jailed, app.powerIndex, app.lastVals)
  BY <1>1 DEF InSet
<1>11. 0 \in Nat /\ app.ubds \subseteq Entry /\ app.reds \subseteq Entry
  BY <1>1
<1> QED BY Zenon, <1>1, <1>5, <1>6, <1>7, <1>8, <1>9, <1>10, <1>11 DEF Sound

\* An export leaves a genesis that keeps its promises (AppExport).
LEMMA AppExportInvariant ==
    ASSUME IInv, NEW at, at.height # -1 => Sound(at.app, at.height), AppExport(at)
    PROVE  IInv'
<1>1. Sound(at.app, at.height) /\ app' = app /\ height' = height /\ previous' = previous
  BY DEF AppExport
<1>2. PICK zero \in BOOLEAN, allowed \in SUBSET Validators :
        exported' = ExportAppStateAndValidators(at.app, at.height, zero, allowed)
  BY DEF AppExport
<1> DEFINE s == at.app
           h == at.height
           x == exported'
<1>3. h \in Nat
  BY <1>1 DEF Sound
<1>4. Written(s, h, zero, allowed, x)
  BY <1>1, <1>2, ExportSound
<1> HIDE DEF s, h
<1>5. /\ x.status \in {"ok", "panic"}
      /\ x.from = s /\ x.forZeroHeight = zero /\ x.jailAllowedAddrs = allowed
      /\ x.Height = IF zero THEN 0 ELSE h + 1
      /\ x.status = "panic" => zero /\ allowed # {} /\ ~ s.powerIndex \subseteq allowed
      /\ x.status = "ok" =>
           /\ Sound(x.app, IF zero THEN 0 ELSE h)
           /\ zero => Heightless(x.app)
           /\ x.Validators = Validators \ x.app.jailed
           /\ x.app.jailed = s.jailed \cup IF zero THEN JailedBy(allowed) ELSE {}
  BY Zenon, <1>4 DEF Written
<1>6. GenesisHeight' = IF zero THEN 0 ELSE h
  BY <1>3, <1>5 DEF GenesisHeight
<1>7. Ok' => Sound(exported'.app, GenesisHeight')
  BY Zenon, <1>5, <1>6 DEF Ok
<1>8. NoHeightSurvives'
  BY Zenon, <1>5 DEF NoHeightSurvives, Heightless, Ok
<1>9. JailedAsListed'
  <2>1. /\ zero /\ allowed # {} => JailedBy(allowed) = Validators \ allowed
        /\ allowed = {} => JailedBy(allowed) = {}
    BY DEF JailedBy
  <2>2. CASE x.status = "panic"
    BY <1>5, <2>2 DEF JailedAsListed, Ok
  <2>3. CASE x.status = "ok"
    BY <1>5, <2>1, <2>3 DEF JailedAsListed, Ok
  <2> QED BY <1>5, <2>2, <2>3
<1>10. Sound(app', height') /\ (previous' = NoPrevious \/ Sound(previous'.app, previous'.height))
  BY Zenon, <1>1 DEF IInv
<1>11. (Ok => Sound(exported.app, GenesisHeight))'
  BY <1>7
<1> QED BY Zenon, <1>8, <1>9, <1>10, <1>11 DEF IInv

\* The inductive invariant holds of every reachable state.
THEOREM ExportInvariant == Spec => []IInv
<1>1. Init => IInv
  <2> SUFFICES ASSUME Init PROVE IInv
    OBVIOUS
  <2>1. /\ height = 0 /\ previous = NoPrevious /\ exported = NoExport
    BY DEF Init
  <2>2. Sound(app, height)
    BY <2>1, InitSound
  <2>3. exported.status = "none"
    BY <2>1 DEF NoExport
  <2>4. NoHeightSurvives /\ JailedAsListed /\ ~ Ok
    BY <2>3 DEF NoHeightSurvives, JailedAsListed, Ok
  <2> QED BY Zenon, <2>1, <2>2, <2>4 DEF IInv
<1>2. IInv /\ [Next]_vars => IInv'
  <2> SUFFICES ASSUME IInv, [Next]_vars PROVE IInv'
    OBVIOUS
  <2>1. CASE Block
    <3>1. /\ height' = height + 1 /\ app' \in Successors(app, height + 1)
          /\ previous' = [height |-> height, app |-> app] /\ exported' = exported
      BY <2>1 DEF Block
    <3>2. Sound(app, height) /\ height \in Nat /\ height + 1 \in Nat /\ height <= height + 1
      <4>1. Sound(app, height)
        BY DEF IInv
      <4>2. height \in Nat
        BY <4>1 DEF Sound
      <4> QED BY <4>1, <4>2
    <3>3. Sound(app', height')
      <4>1. Sound(app, height + 1)
        BY <3>2, SoundLater
      <4> QED BY <3>1, <4>1, SuccessorsSound
    <3>4. Sound(previous'.app, previous'.height)
      BY <3>1, <3>2
    <3>5. /\ (Ok => Sound(exported.app, GenesisHeight))'
          /\ NoHeightSurvives' /\ JailedAsListed'
      BY <3>1 DEF IInv, Ok, GenesisHeight, NoHeightSurvives, JailedAsListed
    <3> QED BY Zenon, <3>3, <3>4, <3>5 DEF IInv
  <2>2. CASE AppExport([height |-> height, app |-> app])
    <3> DEFINE at == [height |-> height, app |-> app]
    <3>1. Sound(at.app, at.height)
      BY DEF IInv
    <3>2. AppExport(at)
      BY <2>2
    <3> HIDE DEF at
    <3> QED BY <3>1, <3>2, AppExportInvariant
  <2>3. CASE AppExport(previous)
    <3>1. previous.height # -1 => Sound(previous.app, previous.height)
      BY DEF IInv, NoPrevious
    <3> QED BY <2>3, <3>1, AppExportInvariant
  <2>4. CASE InitChainer
    <3>1. /\ Ok /\ height' = GenesisHeight /\ previous' = NoPrevious /\ exported' = NoExport
          /\ app' = [exported.app EXCEPT !.powerIndex = Validators \ exported.app.jailed,
                                         !.lastVals = Validators \ exported.app.jailed]
      BY <2>4 DEF InitChainer, Ok, GenesisHeight
    <3>2. Sound(exported.app, GenesisHeight)
      BY <3>1 DEF IInv
    <3>3. app' = exported.app
      BY <3>1, <3>2, RestartedSound
    <3>4. exported'.status = "none"
      BY <3>1 DEF NoExport
    <3>5. NoHeightSurvives' /\ JailedAsListed' /\ ~ Ok'
      BY <3>4 DEF NoHeightSurvives, JailedAsListed, Ok
    <3>6. (Ok => Sound(exported.app, GenesisHeight))'
      BY <3>5
    <3>7. Sound(app', height')
      BY <3>1, <3>2, <3>3
    <3> QED BY Zenon, <3>1, <3>5, <3>6, <3>7 DEF IInv
  <2>5. CASE UNCHANGED vars
    BY <2>5 DEF vars, IInv, Ok, GenesisHeight, NoHeightSurvives, JailedAsListed
  <2> QED BY <2>1, <2>2, <2>3, <2>4, <2>5 DEF Next
<1> QED BY <1>1, <1>2, PTL DEF Spec

\* Every genesis that prepForZeroHeightGenesis writes (export.go 72-251) starts a
\* chain on which the asserted invariants hold and every delegation can be paid,
\* for any validators, delegations, unit and number of blocks and exports.
THEOREM ExportRestartsCleanly == Spec => []RestartsCleanly
<1>1. IInv => RestartsCleanly
  BY SoundPasses DEF IInv, RestartsCleanly
<1> QED BY <1>1, ExportInvariant, PTL

\* No genesis for height zero keeps a height of the old chain, in unbonding entries,
\* redelegations, starting infos, slash events or signing infos (export.go 115-251).
THEOREM ExportNoHeightSurvives == Spec => []NoHeightSurvives
<1>1. IInv => NoHeightSurvives
  BY DEF IInv
<1> QED BY <1>1, ExportInvariant, PTL

\* The export jails exactly the validators off the list, none without one, and the
\* validator set written is the one the new chain computes (export.go 54-70, 203-233).
THEOREM ExportJailedAsListed == Spec => []JailedAsListed
<1>1. IInv => JailedAsListed
  BY DEF IInv
<1> QED BY <1>1, ExportInvariant, PTL
=============================================================================
