------------------------- MODULE MergingSearcherProofs -------------------------
(***************************************************************************)
(* Proofs about MergingSearcher for every number of states and groups.     *)
(***************************************************************************)
EXTENDS MergingSearcher, TLAPS

Pools == [first : StateIds \cup {Null}, states : SUBSET StateIds]

\* The sets of the engine: a terminated state stays in states until the update,
\* and the searcher schedules known states only.
SetsAgree ==
  /\ states \cap zombie = removedStates
  /\ zombie \subseteq created
  /\ states \subseteq created
  /\ activeStates \subseteq states
  /\ currentState # Null => currentState \in activeStates
  /\ pc = "exec" => current \in Live

\* The first state of a pool is a live member of the group that is not scheduled;
\* the members of a group are pinned; no group was used before it was numbered.
GroupsAgree ==
  /\ \A g \in Groups : mergePools[g] # Null /\ mergePools[g].first # Null =>
       /\ mergePools[g].first \in Live \ activeStates
       /\ groupId[mergePools[g].first] = g
  /\ \A s \in Live : groupId[s] # 0 => s \in pinned
  /\ \A s \in StateIds : groupId[s] < nextMergeGroupId

\* Each path that still has to be explored has one owner.
OwnersOf(p) == {s \in Live : p \in paths[s]}

PathsAreOwned ==
  /\ \A s \in StateIds : paths[s] \subseteq created
  /\ \A p \in created \ ended : \E s \in Live : OwnersOf(p) = {s}

IInv ==
  /\ TypeOK
  /\ SetsAgree
  /\ SelectedStatesAreLive
  /\ PoolsAreExact
  /\ SuspendedStatesAreAwaited
  /\ GroupsAgree
  /\ PathsAreOwned

-------------------------------------------------------------------------------
\* update leaves the first states alone, enters the added states, and only
\* creates pools that are empty otherwise.
PoolUpdated(g, added, removed, gid) ==
  LET pool == PoolsAfter(added, removed, gid)[g]
      new == {s \in added : gid[s] = g}
  IN  /\ pool \in {Null} \cup Pools
      /\ mergePools[g] # Null => /\ pool # Null
                                 /\ pool.first = mergePools[g].first
                                 /\ pool.states = mergePools[g].states \cup new
      /\ mergePools[g] = Null => \/ pool = Null /\ new = {}
                                 \/ pool # Null /\ pool.first = Null /\ pool.states = new

LEMMA PoolsAfterFact ==
  ASSUME TypeOK,
         NEW added \in SUBSET StateIds, NEW removed \in SUBSET StateIds,
         NEW gid \in [StateIds -> 0 .. MaxGroups],
         NEW g \in Groups,
         mergePools[g] # Null => mergePools[g].states \cap removed = {}
  PROVE  PoolUpdated(g, added, removed, gid)
<1> DEFINE old == IF mergePools[g] = Null THEN NewPool ELSE mergePools[g]
           new == {s \in added : gid[s] = g}
           result == [old EXCEPT !.states = (@ \ removed) \cup new]
<1>1. mergePools[g] \in {Null} \cup Pools
  BY Zenon DEF TypeOK, Pools
<1>2. NewPool \in Pools /\ NewPool.first = Null /\ NewPool.states = {}
  BY Zenon DEF NewPool, Pools
<1>3. old \in Pools
  BY <1>1, <1>2, Zenon
<1>4. /\ result \in Pools
      /\ result.first = old.first
      /\ result.states = (old.states \ removed) \cup new
  BY <1>3, Zenon DEF Pools
<1>5. Null \notin Pools
  BY MergingSearcherAssumption, Zenon DEF Pools
<1>6. old.states \cap removed = {}
  BY <1>2, Zenon
<1>7. result.states = old.states \cup new
  BY <1>4, <1>6, Zenon
<1>8. PoolsAfter(added, removed, gid)[g] =
        IF \E s \in removed \cup added : gid[s] = g THEN result ELSE mergePools[g]
  BY Zenon DEF PoolsAfter
<1>9. CASE \E s \in removed \cup added : gid[s] = g
  <2>1. PoolsAfter(added, removed, gid)[g] = result
    BY <1>8, <1>9, Zenon
  <2> HIDE DEF result
  <2>2. result # Null
    BY <1>4, <1>5, Zenon
  <2>3. CASE mergePools[g] # Null
    BY <2>1, <2>2, <2>3, <1>4, <1>7, Zenon DEF PoolUpdated
  <2>4. CASE mergePools[g] = Null
    <3>1. old = NewPool
      BY <2>4, Zenon
    <3>2. result.first = Null /\ result.states = new
      BY <3>1, <1>2, <1>4, <1>7, Zenon
    <3> QED BY <3>2, <2>1, <2>2, <2>4, <1>4, Zenon DEF PoolUpdated
  <2> QED BY <2>3, <2>4, Zenon
<1>10. CASE ~ \E s \in removed \cup added : gid[s] = g
  <2>1. PoolsAfter(added, removed, gid)[g] = mergePools[g]
    BY <1>8, <1>10, Zenon
  <2>2. new = {}
    BY <1>10, Zenon
  <2> HIDE DEF new
  <2>3. mergePools[g].states \cup new = mergePools[g].states
    BY <2>2, Zenon
  <2> QED BY <2>1, <2>2, <2>3, <1>1, Zenon DEF new, PoolUpdated
<1> QED BY <1>9, <1>10, Zenon

\* What an update with terminated states preserves: the terminated states are
\* zombies or belong to no group, so that every pool stays exact.
UpdateAllowed(added, removed, gid) ==
  /\ added \subseteq StateIds \ created
  /\ removed \subseteq states
  /\ removedStates \subseteq removed
  /\ \A s \in removed \ removedStates : groupId[s] = 0
  /\ gid \in [StateIds -> 0 .. MaxGroups]
  /\ \A s \in StateIds \ added : gid[s] = groupId[s]

LEMMA UpdatedPools ==
  ASSUME IInv, NEW added, NEW removed, NEW gid, UpdateAllowed(added, removed, gid),
         NEW g \in Groups
  PROVE  PoolUpdated(g, added, removed, gid)
<1>1. mergePools[g] # Null => mergePools[g].states \cap removed = {}
  <2> SUFFICES ASSUME mergePools[g] # Null, NEW s \in removed, s \in mergePools[g].states
               PROVE  FALSE
    OBVIOUS
  <2>1. s \in Live /\ groupId[s] = g
    BY DEF IInv, PoolsAreExact
  <2>2. g # 0
    BY DEF Groups
  <2>3. s \in removedStates
    BY <2>1, <2>2, Zenon DEF UpdateAllowed
  <2> QED BY <2>1, <2>3, Zenon DEF IInv, SetsAgree, Live
<1>2. added \in SUBSET StateIds /\ removed \in SUBSET StateIds /\ gid \in [StateIds -> 0 .. MaxGroups]
  BY Zenon DEF UpdateAllowed, IInv, TypeOK
<1>3. TypeOK
  BY Zenon DEF IInv
<1> QED BY <1>1, <1>2, <1>3, PoolsAfterFact, Zenon

\* The step of an update, with what the actions that contain one add to it.
UpdateStep(added, removed, gid) ==
  /\ UpdateAllowed(added, removed, gid)
  /\ UpdateStates(added, removed, gid)
  /\ groupId' = gid
  /\ zombie' = zombie \cup (removed \ removedStates)
  /\ created' = created \cup added
  /\ pinned \subseteq pinned'
  /\ \A s \in added : gid[s] < nextMergeGroupId /\ (gid[s] # 0 => s \in pinned')
  /\ nextMergeGroupId' = nextMergeGroupId
  /\ currentState' \in activeStates' \cup {Null}
  /\ pc' = "exec" => current' \in activeStates'
  /\ pc' # "aborted"

LEMMA UpdateKeepsInvariants ==
  ASSUME IInv, NEW added, NEW removed, NEW gid, UpdateStep(added, removed, gid)
  PROVE  /\ Live' = (Live \ removed) \cup added
         /\ mergePools' \in [Groups -> {Null} \cup Pools]
         /\ SetsAgree'
         /\ SelectedStatesAreLive'
         /\ PoolsAreExact'
         /\ SuspendedStatesAreAwaited'
         /\ GroupsAgree'
<1>0. /\ UpdateAllowed(added, removed, gid)
      /\ mergePools' = PoolsAfter(added, removed, gid)
      /\ groupId' = gid
  BY Zenon DEF UpdateStep, UpdateStates
<1>1. \A g \in Groups : PoolUpdated(g, added, removed, gid)
  BY <1>0, UpdatedPools, Zenon
<1>2. Live' = (Live \ removed) \cup added
  BY Zenon DEF UpdateStep, UpdateAllowed, UpdateStates, IInv, SetsAgree, Live
<1>3. activeStates' \subseteq Live' /\ activeStates' = (activeStates \cup added) \ removed
  BY <1>2, Zenon DEF UpdateStep, UpdateAllowed, UpdateStates, IInv, SetsAgree, Live
<1>4. SetsAgree'
  BY <1>2, <1>3, Zenon DEF UpdateStep, UpdateAllowed, UpdateStates, IInv, SetsAgree, Live
<1>5. SelectedStatesAreLive'
  BY Zenon DEF UpdateStep, SelectedStatesAreLive
<1>6. mergePools' \in [Groups -> {Null} \cup Pools]
  <2>1. \A g \in Groups : PoolsAfter(added, removed, gid)[g] \in {Null} \cup Pools
    BY <1>1, Zenon DEF PoolUpdated
  <2>2. PoolsAfter(added, removed, gid) = [g \in Groups |-> PoolsAfter(added, removed, gid)[g]]
    BY Zenon DEF PoolsAfter
  <2> QED BY <2>1, <2>2, <1>0, Zenon
<1>7. \A s \in Live : groupId[s] # 0 => s \in Live' /\ groupId'[s] = groupId[s]
  BY <1>0, <1>2, Zenon DEF UpdateAllowed, IInv, SetsAgree, TypeOK, Live
<1>8. /\ added \subseteq StateIds
      /\ \A s \in added : s \notin Live /\ s \notin removed
      /\ \A s \in Live' : s \in added \/ (s \in Live /\ groupId'[s] = groupId[s] /\ s \in StateIds)
  BY <1>0, <1>2, Zenon DEF UpdateAllowed, IInv, SetsAgree, TypeOK, Live
<1>9. \A g \in Groups : g # 0 /\ g \in Nat
  BY DEF Groups
<1>10. PoolsAreExact'
  <2>1. ASSUME NEW g \in Groups, mergePools'[g] # Null
        PROVE  mergePools'[g].states = {s \in Live' : groupId'[s] = g} \ {mergePools'[g].first}
    <3>1. PoolUpdated(g, added, removed, gid)
      BY <1>1, Zenon
    <3>2. {s \in Live' : groupId'[s] = g} =
            {s \in Live : groupId[s] = g} \cup {s \in added : gid[s] = g}
      BY <1>0, <1>2, <1>7, <1>8, <1>9, Zenon
    <3>3. CASE mergePools[g] # Null
      <4>1. mergePools[g].states = {s \in Live : groupId[s] = g} \ {mergePools[g].first}
        BY <3>3, Zenon DEF IInv, PoolsAreExact
      <4>2. mergePools[g].first \notin added
        BY <3>3, <1>8, MergingSearcherAssumption DEF IInv, GroupsAgree
      <4> QED BY <3>1, <3>2, <3>3, <4>1, <4>2, <1>0 DEF PoolUpdated
    <3>4. CASE mergePools[g] = Null
      <4>1. {s \in Live : groupId[s] = g} = {}
        BY <3>4, <1>9, Zenon DEF IInv, PoolsAreExact
      <4>2. Null \notin added
        BY <1>8, MergingSearcherAssumption, Zenon
      <4> QED BY <3>1, <3>2, <3>4, <4>1, <4>2, <2>1, <1>0 DEF PoolUpdated
    <3> QED BY <3>3, <3>4, Zenon
  <2>2. ASSUME NEW s \in Live', groupId'[s] # 0
        PROVE  mergePools'[groupId'[s]] # Null
    <3>1. groupId'[s] \in Groups
      BY <2>2, <1>0, <1>8 DEF UpdateAllowed, Groups
    <3>2. PoolUpdated(groupId'[s], added, removed, gid)
      BY <3>1, <1>1, Zenon
    <3>3. CASE s \in added
      BY <3>2, <3>3, <1>0, Zenon DEF PoolUpdated
    <3>4. CASE s \notin added
      <4>1. mergePools[groupId'[s]] # Null
        BY <3>4, <2>2, <1>8, Zenon DEF IInv, PoolsAreExact
      <4> QED BY <4>1, <3>2, <1>0, Zenon DEF PoolUpdated
    <3> QED BY <3>3, <3>4, Zenon
  <2> QED BY <2>1, <2>2, Zenon DEF PoolsAreExact
<1>11. \A s \in Live' \ activeStates' : s \in Live \ activeStates
  BY <1>2, <1>3, <1>8, Zenon
<1>12. SuspendedStatesAreAwaited'
  <2> SUFFICES ASSUME NEW s \in Live' \ activeStates'
               PROVE  /\ groupId'[s] # 0
                      /\ mergePools'[groupId'[s]].first = s
                      /\ mergePools'[groupId'[s]].states \cap Live' \cap activeStates' # {}
    BY Zenon DEF SuspendedStatesAreAwaited
  <2>1. s \in Live \ activeStates
    BY <1>11, Zenon
  <2>2. /\ groupId[s] # 0
        /\ mergePools[groupId[s]].first = s
        /\ mergePools[groupId[s]].states \cap Live \cap activeStates # {}
    BY <2>1, Zenon DEF IInv, SuspendedStatesAreAwaited
  <2>3. groupId'[s] = groupId[s] /\ groupId[s] \in Groups /\ mergePools[groupId[s]] # Null
    BY <2>1, <2>2, <1>7 DEF IInv, PoolsAreExact, TypeOK, Groups, Live
  <2>4. PICK t : t \in mergePools[groupId[s]].states \cap Live \cap activeStates
    BY <2>2, Zenon
  <2>5. groupId[t] # 0
    BY <2>2, <2>3, <2>4, Zenon DEF IInv, PoolsAreExact
  <2>6. t \in Live' /\ t \in activeStates'
    BY <2>4, <2>5, <1>2, <1>3, <1>7, <1>8, Zenon
  <2>7. PoolUpdated(groupId[s], added, removed, gid)
    BY <2>3, <1>1, Zenon
  <2> QED BY <2>2, <2>3, <2>4, <2>6, <2>7, <1>0, Zenon DEF PoolUpdated
<1>13. GroupsAgree'
  <2>1. ASSUME NEW g \in Groups, mergePools'[g] # Null, mergePools'[g].first # Null
        PROVE  mergePools'[g].first \in Live' \ activeStates' /\ groupId'[mergePools'[g].first] = g
    <3>1. PoolUpdated(g, added, removed, gid)
      BY <1>1, Zenon
    <3>2. mergePools[g] # Null /\ mergePools'[g].first = mergePools[g].first
      BY <3>1, <2>1, <1>0, Zenon DEF PoolUpdated
    <3>3. mergePools[g].first \in Live \ activeStates /\ groupId[mergePools[g].first] = g
      BY <3>2, <2>1, Zenon DEF IInv, GroupsAgree
    <3> QED BY <3>2, <3>3, <1>3, <1>7, <1>8, <1>9, Zenon
  <2>2. ASSUME NEW s \in Live', groupId'[s] # 0 PROVE s \in pinned'
    BY <2>2, <1>0, <1>8, Zenon DEF UpdateStep, IInv, GroupsAgree
  <2>3. ASSUME NEW s \in StateIds PROVE groupId'[s] < nextMergeGroupId'
    BY <1>0, Zenon DEF UpdateStep, UpdateAllowed, IInv, GroupsAgree
  <2> QED BY <2>1, <2>2, <2>3, Zenon DEF GroupsAgree
<1> QED BY <1>2, <1>4, <1>5, <1>6, <1>10, <1>12, <1>13, Zenon

\* The paths of terminated states are not looked for any more.
LEMMA KilledPaths ==
  ASSUME IInv, NEW killed, Live' = Live \ killed, paths' = paths, created' = created,
         ended' = ended \cup UNION {paths[s] : s \in killed}
  PROVE  PathsAreOwned'
<1>1. ASSUME NEW p \in created' \ ended' PROVE \E s \in Live' : OwnersOf(p)' = {s}
  <2>1. p \in created \ ended /\ \A s \in killed : p \notin paths[s]
    BY <1>1, Zenon
  <2>2. PICK s \in Live : OwnersOf(p) = {s}
    BY <2>1, Zenon DEF IInv, PathsAreOwned
  <2>3. OwnersOf(p)' = OwnersOf(p)
    BY <2>1, Zenon DEF OwnersOf
  <2>4. s \notin killed
    BY <2>1, <2>2, Zenon DEF OwnersOf
  <2> QED BY <2>2, <2>3, <2>4, Zenon
<1> QED BY <1>1, Zenon DEF PathsAreOwned, IInv

LEMMA CurrentAfterFact ==
  ASSUME IInv, NEW removed
  PROVE  CurrentAfter(removed) \in (activeStates \ removed) \cup {Null}
BY Zenon DEF CurrentAfter, IInv, SetsAgree

-------------------------------------------------------------------------------
LEMMA InitIInv == Init => IInv
<1> SUFFICES ASSUME Init PROVE IInv
  OBVIOUS
<1> USE MergingSearcherAssumption DEF Init, InitSearcher, Live
<1>1. TypeOK
  BY DEF TypeOK, PC, Groups
<1>2. SetsAgree /\ SelectedStatesAreLive
  BY Zenon DEF SetsAgree, SelectedStatesAreLive
<1>3. PoolsAreExact /\ SuspendedStatesAreAwaited /\ GroupsAgree
  BY DEF PoolsAreExact, SuspendedStatesAreAwaited, GroupsAgree
<1>4. PathsAreOwned
  <2>1. OwnersOf(First) = {First}
    BY Zenon DEF OwnersOf
  <2> QED BY <2>1, Zenon DEF PathsAreOwned
<1> QED BY <1>1, <1>2, <1>3, <1>4, Zenon DEF IInv

LEMMA ForkKeepsIInv == ASSUME IInv, NEW t \in StateIds, Fork(t) PROVE IInv'
<1>1. /\ t \notin created /\ pc = "exec" /\ current \in StateIds
      /\ groupId' = [groupId EXCEPT ![t] = groupId[current]]
      /\ groupId \in [StateIds -> 0 .. MaxGroups]
  BY Zenon DEF Fork, IInv, TypeOK
<1>2. current \in Live /\ current \in activeStates
  BY <1>1, Zenon DEF IInv, SetsAgree, SelectedStatesAreLive
<1>3. UpdateAllowed({t}, removedStates, groupId')
  BY <1>1, Zenon DEF UpdateAllowed, IInv, TypeOK
<1>4. UpdateStep({t}, removedStates, groupId')
  <2>1. current \in activeStates'
    BY <1>2, Zenon DEF Fork, UpdateStates, IInv, SetsAgree, Live
  <2>2. currentState' \in activeStates' \cup {Null}
    BY CurrentAfterFact, Zenon DEF Fork, UpdateStates
  <2>3. groupId'[t] < nextMergeGroupId /\ (groupId'[t] # 0 => t \in pinned')
    BY <1>1, <1>2, Zenon DEF Fork, IInv, GroupsAgree
  <2> QED BY <1>1, <1>3, <2>1, <2>2, <2>3, Zenon DEF Fork, UpdateStep
<1>5. /\ Live' = (Live \ removedStates) \cup {t}
      /\ mergePools' \in [Groups -> {Null} \cup Pools]
      /\ SetsAgree' /\ SelectedStatesAreLive' /\ PoolsAreExact'
      /\ SuspendedStatesAreAwaited' /\ GroupsAgree'
  BY <1>4, UpdateKeepsInvariants, Zenon
<1>6. TypeOK'
  <2>1. activeStates \subseteq StateIds /\ currentState' \in StateIds \cup {Null}
    BY CurrentAfterFact, Zenon DEF Fork, IInv, TypeOK, SetsAgree
  <2>2. groupId' \in [StateIds -> 0 .. MaxGroups]
    BY <1>1, Zenon
  <2>3. paths' \in [StateIds -> SUBSET StateIds] /\ pinned' \subseteq StateIds
    BY Zenon DEF Fork, IInv, TypeOK
  <2>4. /\ activeStates' \subseteq StateIds /\ states' \subseteq StateIds
        /\ removedStates' = {} /\ created' \subseteq StateIds
    BY <2>1, Zenon DEF Fork, UpdateStates, IInv, TypeOK
  <2>5. UNCHANGED <<nextMergeGroupId, selector, zombie, current, ended, pc>>
    BY Zenon DEF Fork
  <2> QED BY <1>5, <2>1, <2>2, <2>3, <2>4, <2>5, Zenon DEF IInv, TypeOK, Pools
<1>7. PathsAreOwned'
  <2>1. Live' = Live \cup {t} /\ t \notin Live
    BY <1>1, <1>5, Zenon DEF IInv, SetsAgree, Live
  <2>2. paths' = [paths EXCEPT ![t] = {t}] /\ paths \in [StateIds -> SUBSET StateIds]
    BY Zenon DEF Fork, IInv, TypeOK
  <2>3. Live \subseteq StateIds
    BY Zenon DEF IInv, TypeOK, Live
  <2>4. created' = created \cup {t} /\ ended' = ended
    BY Zenon DEF Fork
  <2>5. \A s \in StateIds : paths'[s] \subseteq created'
    BY <2>2, <2>4, Zenon DEF IInv, PathsAreOwned
  <2>6. OwnersOf(t)' = {t}
    BY <1>1, <2>1, <2>2, <2>3, Zenon DEF OwnersOf, IInv, PathsAreOwned
  <2>7. \A p \in created : OwnersOf(p)' = OwnersOf(p)
    BY <1>1, <2>1, <2>2, <2>3, Zenon DEF OwnersOf
  <2>8. \A p \in created' \ ended' : \E s \in Live' : OwnersOf(p)' = {s}
    BY <2>1, <2>4, <2>6, <2>7, Zenon DEF IInv, PathsAreOwned
  <2> QED BY <2>5, <2>8, Zenon DEF PathsAreOwned
<1> QED BY <1>5, <1>6, <1>7, Zenon DEF IInv

LEMMA InstructionDoneKeepsIInv == ASSUME IInv, InstructionDone PROVE IInv'
<1>1. UpdateAllowed({}, removedStates, groupId)
  BY Zenon DEF UpdateAllowed, IInv, TypeOK
<1>2. UpdateStep({}, removedStates, groupId)
  <2>1. pc = "exec" => current \in activeStates'
    BY Zenon DEF InstructionDone, UpdateStates, IInv, SetsAgree, SelectedStatesAreLive, Live
  <2>2. currentState' \in activeStates' \cup {Null}
    BY CurrentAfterFact, Zenon DEF InstructionDone, UpdateStates
  <2> QED BY <1>1, <2>1, <2>2, Zenon DEF InstructionDone, UpdateStep, history, IInv, SelectedStatesAreLive
<1>3. /\ Live' = (Live \ removedStates) \cup {}
      /\ mergePools' \in [Groups -> {Null} \cup Pools]
      /\ SetsAgree' /\ SelectedStatesAreLive' /\ PoolsAreExact'
      /\ SuspendedStatesAreAwaited' /\ GroupsAgree'
  BY <1>2, UpdateKeepsInvariants, Zenon
<1>4. TypeOK'
  BY <1>3, CurrentAfterFact, Zenon DEF InstructionDone, UpdateStates, IInv, TypeOK, Pools, SetsAgree, history
<1>5. PathsAreOwned'
  <2>1. Live' = Live \ {}
    BY <1>3, Zenon DEF IInv, SetsAgree, Live
  <2>2. paths' = paths /\ created' = created /\ ended' = ended \cup UNION {paths[s] : s \in {}}
    BY Zenon DEF InstructionDone, history
  <2> QED BY <2>1, <2>2, KilledPaths, Zenon
<1> QED BY <1>3, <1>4, <1>5, Zenon DEF IInv

\* Load balancing moves live states that belong to no group.
LEMMA BalancedUpdate ==
  ASSUME IInv, NEW killed, LoadBalance(killed)
  PROVE  /\ killed \subseteq Live
         /\ zombie' = zombie \cup ((removedStates \cup killed) \ removedStates)
         /\ UpdateAllowed({}, removedStates \cup killed, groupId)
<1>1. killed \subseteq Live \ pinned
  BY Zenon DEF LoadBalance, Movable
<1>2. \A s \in killed : groupId[s] = 0
  BY <1>1, Zenon DEF IInv, GroupsAgree
<1>3. zombie' = zombie \cup ((removedStates \cup killed) \ removedStates)
  BY Zenon DEF LoadBalance, IInv, SetsAgree
<1>4. UpdateAllowed({}, removedStates \cup killed, groupId)
  BY <1>1, <1>2, Zenon DEF UpdateAllowed, IInv, TypeOK, Live
<1> QED BY <1>1, <1>3, <1>4, Zenon

LEMMA StateSwitchTimerKeepsIInv ==
  ASSUME IInv, NEW killed, NEW s, StateSwitchTimer(killed, s) PROVE IInv'
<1> DEFINE removed == removedStates \cup killed
<1> USE SMTT(30), ZenonT(30)
<1>1. /\ LoadBalance(killed)
      /\ UpdateStates({}, removed, groupId)
      /\ s \in Selectable(CurrentAfter(removed), activeStates')
      /\ currentState' = IF selector THEN CurrentAfter(removed) ELSE s
      /\ current' = s
      /\ pc' = IF s \in states' \ zombie' THEN "exec" ELSE "aborted"
      /\ UNCHANGED <<nextMergeGroupId, groupId, pinned, selector, created, paths>>
  BY Zenon DEF StateSwitchTimer
<1>2. /\ killed \subseteq Live
      /\ zombie' = zombie \cup (removed \ removedStates)
      /\ UpdateAllowed({}, removed, groupId)
  BY <1>1, BalancedUpdate, Zenon
<1>3. CurrentAfter(removed) \in activeStates' \cup {Null}
  BY <1>1, CurrentAfterFact, Zenon DEF UpdateStates
<1> HIDE DEF removed
<1>4. s \in activeStates'
  <2>1. CASE selector \/ CurrentAfter(removed) = Null
    BY <1>1, <2>1, Zenon DEF Selectable
  <2>2. CASE ~(selector \/ CurrentAfter(removed) = Null)
    <3>1. s = CurrentAfter(removed)
      BY <1>1, <2>2, Zenon DEF Selectable
    <3> QED BY <3>1, <2>2, <1>3, Zenon
  <2> QED BY <2>1, <2>2, Zenon
<1>5. s \in states' \ zombie'
  BY <1>1, <1>2, <1>4, Zenon DEF UpdateStates, UpdateAllowed, IInv, SetsAgree
<1>6. UpdateStep({}, removed, groupId)
  BY <1>1, <1>2, <1>3, <1>4, <1>5, Zenon DEF UpdateStep
<1>7. /\ Live' = (Live \ removed) \cup {}
      /\ mergePools' \in [Groups -> {Null} \cup Pools]
      /\ SetsAgree' /\ SelectedStatesAreLive' /\ PoolsAreExact'
      /\ SuspendedStatesAreAwaited' /\ GroupsAgree'
  BY <1>6, UpdateKeepsInvariants, Zenon
<1>8. ended' = ended \cup UNION {paths[t] : t \in killed}
  BY <1>1, Zenon DEF LoadBalance
<1>9. TypeOK'
  <2>1. states' \subseteq StateIds /\ activeStates' \subseteq StateIds /\ removedStates' = {}
    BY <1>1, Zenon DEF UpdateStates, IInv, TypeOK
  <2>2. zombie' \subseteq StateIds /\ currentState' \in StateIds \cup {Null} /\ current' \in StateIds
    BY <1>1, <1>2, <1>3, <1>4, <2>1, Zenon DEF IInv, TypeOK, Live, UpdateAllowed
  <2>3. ended' \subseteq StateIds
    BY <1>2, <1>8 DEF IInv, TypeOK, Live
  <2>4. pc' \in PC
    BY <1>1, Zenon DEF PC
  <2> QED BY <1>1, <1>7, <2>1, <2>2, <2>3, <2>4, Zenon DEF IInv, TypeOK, Pools
<1>10. PathsAreOwned'
  <2>1. Live' = Live \ killed
    BY <1>7, Zenon DEF removed, IInv, SetsAgree, Live
  <2> QED BY <2>1, <1>1, <1>8, KilledPaths, Zenon
<1> QED BY <1>7, <1>9, <1>10, Zenon DEF IInv

LEMMA AllTerminatedKeepsIInv == ASSUME IInv, NEW killed, AllTerminated(killed) PROVE IInv'
<1> DEFINE removed == removedStates \cup killed
<1> USE SMTT(30), ZenonT(30)
<1>1. /\ LoadBalance(killed)
      /\ UpdateStates({}, removed, groupId)
      /\ currentState' = CurrentAfter(removed)
      /\ pc' = "exited"
      /\ UNCHANGED <<nextMergeGroupId, groupId, pinned, selector, current, created, paths>>
  BY Zenon DEF AllTerminated
<1>2. /\ killed \subseteq Live
      /\ zombie' = zombie \cup (removed \ removedStates)
      /\ UpdateAllowed({}, removed, groupId)
  BY <1>1, BalancedUpdate, Zenon
<1>3. currentState' \in activeStates' \cup {Null}
  BY <1>1, CurrentAfterFact, Zenon DEF UpdateStates
<1> HIDE DEF removed
<1>4. UpdateStep({}, removed, groupId)
  BY <1>1, <1>2, <1>3, Zenon DEF UpdateStep
<1>5. /\ Live' = (Live \ removed) \cup {}
      /\ mergePools' \in [Groups -> {Null} \cup Pools]
      /\ SetsAgree' /\ SelectedStatesAreLive' /\ PoolsAreExact'
      /\ SuspendedStatesAreAwaited' /\ GroupsAgree'
  BY <1>4, UpdateKeepsInvariants, Zenon
<1>6. ended' = ended \cup UNION {paths[t] : t \in killed}
  BY <1>1, Zenon DEF LoadBalance
<1>7. TypeOK'
  <2>1. states' \subseteq StateIds /\ activeStates' \subseteq StateIds /\ removedStates' = {}
    BY <1>1, Zenon DEF UpdateStates, IInv, TypeOK
  <2>2. zombie' \subseteq StateIds /\ currentState' \in StateIds \cup {Null}
    BY <1>2, <1>3, <2>1, Zenon DEF IInv, TypeOK, Live, UpdateAllowed
  <2>3. ended' \subseteq StateIds
    BY <1>2, <1>6 DEF IInv, TypeOK, Live
  <2> QED BY <1>1, <1>5, <2>1, <2>2, <2>3, Zenon DEF IInv, TypeOK, Pools, PC
<1>8. PathsAreOwned'
  <2>1. Live' = Live \ killed
    BY <1>5, Zenon DEF removed, IInv, SetsAgree, Live
  <2> QED BY <2>1, <1>1, <1>6, KilledPaths, Zenon
<1> QED BY <1>5, <1>7, <1>8, Zenon DEF IInv

LEMMA TerminateKeepsIInv ==
  ASSUME IInv, NEW s \in StateIds, groupId[s] = 0, Terminate(s) PROVE IInv'
<1>1. /\ s \in Live
      /\ removedStates' = removedStates \cup {s}
      /\ zombie' = zombie \cup {s}
      /\ ended' = ended \cup paths[s]
      /\ pc \in {"exec", "yielded"}
      /\ pc' = IF s = current THEN "yielded" ELSE pc
      /\ UNCHANGED <<pools, search, states, current, created, paths>>
  BY Zenon DEF Terminate
<1>2. UNCHANGED <<mergePools, nextMergeGroupId, groupId, pinned, activeStates, currentState, selector>>
  BY <1>1, Zenon DEF pools, search
<1>3. Live' = Live \ {s}
  BY <1>1, Zenon DEF Live
<1>4. PathsAreOwned'
  <2>1. ended' = ended \cup UNION {paths[u] : u \in {s}}
    BY <1>1, Zenon
  <2> QED BY <2>1, <1>1, <1>3, KilledPaths, Zenon
<1> USE SMTT(30), ZenonT(30)
<1>10. TypeOK'
  BY <1>1, <1>2, Zenon DEF IInv, TypeOK, PC, Live
<1>5. SetsAgree' /\ SelectedStatesAreLive'
  BY <1>1, <1>2 DEF IInv, SetsAgree, SelectedStatesAreLive, Live, TypeOK
<1>6. \A g \in Groups : g # 0
  BY DEF Groups
<1>7. PoolsAreExact'
  <2>1. ASSUME NEW g \in Groups PROVE {t \in Live' : groupId[t] = g} = {t \in Live : groupId[t] = g}
    BY <1>3, <1>6, Zenon
  <2> QED BY <2>1, <1>2, <1>3, Zenon DEF IInv, PoolsAreExact
<1>8. SuspendedStatesAreAwaited'
  <2> SUFFICES ASSUME NEW t \in Live' \ activeStates'
               PROVE  /\ groupId'[t] # 0
                      /\ mergePools'[groupId'[t]].first = t
                      /\ mergePools'[groupId'[t]].states \cap Live' \cap activeStates' # {}
    BY Zenon DEF SuspendedStatesAreAwaited
  <2>1. /\ groupId[t] # 0
        /\ mergePools[groupId[t]].first = t
        /\ mergePools[groupId[t]].states \cap Live \cap activeStates # {}
    BY <1>2, <1>3, Zenon DEF IInv, SuspendedStatesAreAwaited
  <2>2. groupId[t] \in Groups /\ mergePools[groupId[t]] # Null
    BY <2>1, <1>3 DEF IInv, PoolsAreExact, TypeOK, Groups, Live
  <2>3. s \notin mergePools[groupId[t]].states
    BY <2>1, <2>2 DEF IInv, PoolsAreExact
  <2> QED BY <2>1, <2>3, <1>2, <1>3, Zenon
<1>9. GroupsAgree'
  BY <1>2, <1>3, <1>6, Zenon DEF IInv, GroupsAgree
<1> QED BY <1>4, <1>5, <1>7, <1>8, <1>9, <1>10, Zenon DEF IInv

-------------------------------------------------------------------------------
LEMMA MergeStartKeepsIInv == ASSUME IInv, MergeStart PROVE IInv'
<1> DEFINE n == nextMergeGroupId
           pool == [first |-> Null, states |-> {current}]
<1> USE SMTT(30), ZenonT(30)
<1>1. /\ pc = "exec" /\ groupId[current] = 0 /\ n \in Groups
      /\ nextMergeGroupId' = n + 1
      /\ groupId' = [groupId EXCEPT ![current] = n]
      /\ mergePools' = [mergePools EXCEPT ![n] = pool]
      /\ pinned' = pinned \cup {current}
      /\ UNCHANGED <<activeStates, currentState, selector, states, removedStates, zombie, current,
                     created, paths, ended, pc>>
  BY Zenon DEF MergeStart, search, engine, history
<1>2. /\ current \in Live /\ current \in activeStates /\ current \in StateIds
      /\ Live' = Live /\ Live \subseteq StateIds
      /\ groupId \in [StateIds -> 0 .. MaxGroups]
      /\ mergePools \in [Groups -> {Null} \cup Pools]
  BY <1>1, Zenon DEF IInv, SetsAgree, SelectedStatesAreLive, TypeOK, Live, Pools
<1>3. pool \in Pools /\ pool.first = Null /\ pool.states = {current} /\ pool # Null
  BY <1>2, MergingSearcherAssumption DEF Pools
<1>4. n \in Nat \ {0} /\ \A s \in StateIds : groupId[s] < n /\ groupId[s] \in Nat
  BY <1>1, <1>2 DEF IInv, GroupsAgree, Groups
<1> HIDE DEF pool, n
<1>5. TypeOK'
  <2>1. mergePools' \in [Groups -> {Null} \cup Pools] /\ groupId' \in [StateIds -> 0 .. MaxGroups]
    BY <1>1, <1>2, <1>3 DEF Groups
  <2>2. nextMergeGroupId' \in 1 .. MaxGroups + 1 /\ pinned' \subseteq StateIds
    BY <1>1, <1>2, <1>4, MergingSearcherAssumption DEF Groups, IInv, TypeOK
  <2> QED BY <1>1, <2>1, <2>2, Zenon DEF IInv, TypeOK, Pools
<1>6. SetsAgree' /\ SelectedStatesAreLive'
  BY <1>1, <1>2, Zenon DEF IInv, SetsAgree, SelectedStatesAreLive
<1>7. /\ mergePools'[n] = pool /\ groupId'[current] = n
      /\ \A g \in Groups \ {n} : mergePools'[g] = mergePools[g]
      /\ \A s \in StateIds \ {current} : groupId'[s] = groupId[s]
  BY <1>1, <1>2, Zenon
<1>8. PoolsAreExact'
  <2>1. ASSUME NEW g \in Groups, mergePools'[g] # Null
        PROVE  mergePools'[g].states = {s \in Live' : groupId'[s] = g} \ {mergePools'[g].first}
    <3>1. CASE g = n
      <4>1. {s \in Live' : groupId'[s] = g} = {current}
        BY <3>1, <1>2, <1>4, <1>7
      <4>2. current # Null
        BY <1>2, MergingSearcherAssumption, Zenon
      <4> QED BY <3>1, <4>1, <4>2, <1>3, <1>7
    <3>2. CASE g # n
      <4>1. {s \in Live' : groupId'[s] = g} = {s \in Live : groupId[s] = g}
        BY <3>2, <1>1, <1>2, <1>7 DEF Groups
      <4>2. mergePools'[g] = mergePools[g]
        BY <3>2, <1>7, Zenon
      <4> QED BY <4>1, <4>2, <2>1, Zenon DEF IInv, PoolsAreExact
    <3> QED BY <3>1, <3>2, Zenon
  <2>2. ASSUME NEW s \in Live', groupId'[s] # 0
        PROVE  mergePools'[groupId'[s]] # Null
    <3>1. CASE s = current
      BY <3>1, <1>3, <1>7, Zenon
    <3>2. CASE s # current
      <4>1. groupId'[s] = groupId[s] /\ groupId[s] \in Groups /\ groupId[s] # n
        BY <3>2, <2>2, <1>2, <1>4, <1>7 DEF Groups
      <4> QED BY <4>1, <2>2, <1>2, <1>7, ZenonT(30) DEF IInv, PoolsAreExact
    <3> QED BY <3>1, <3>2, Zenon
  <2> QED BY <2>1, <2>2, Zenon DEF PoolsAreExact
<1>9. SuspendedStatesAreAwaited'
  <2> SUFFICES ASSUME NEW s \in Live' \ activeStates'
               PROVE  /\ groupId'[s] # 0
                      /\ mergePools'[groupId'[s]].first = s
                      /\ mergePools'[groupId'[s]].states \cap Live' \cap activeStates' # {}
    BY Zenon DEF SuspendedStatesAreAwaited
  <2>1. s \in Live \ activeStates
    BY <1>1, <1>2, Zenon
  <2>2. groupId[s] # 0
    BY <2>1, Zenon DEF IInv, SuspendedStatesAreAwaited
  <2>3. groupId'[s] = groupId[s] /\ mergePools'[groupId[s]] = mergePools[groupId[s]]
    BY <2>1, <2>2, <1>2, <1>4, <1>7 DEF Groups
  <2> QED BY <2>1, <2>3, <1>1, <1>2, Zenon DEF IInv, SuspendedStatesAreAwaited
<1>10. GroupsAgree'
  <2>1. ASSUME NEW g \in Groups, mergePools'[g] # Null, mergePools'[g].first # Null
        PROVE  mergePools'[g].first \in Live' \ activeStates' /\ groupId'[mergePools'[g].first] = g
    <3>1. g # n /\ mergePools'[g] = mergePools[g]
      BY <2>1, <1>3, <1>7, Zenon
    <3>2. mergePools[g].first \in Live \ activeStates /\ groupId[mergePools[g].first] = g
      BY <2>1, <3>1, Zenon DEF IInv, GroupsAgree
    <3> QED BY <3>1, <3>2, <1>1, <1>2, <1>7, Zenon
  <2>2. \A s \in Live' : groupId'[s] # 0 => s \in pinned'
    BY <1>1, <1>2, <1>7, Zenon DEF IInv, GroupsAgree
  <2>3. \A s \in StateIds : groupId'[s] < nextMergeGroupId'
    BY <1>1, <1>2, <1>4, <1>7
  <2> QED BY <2>1, <2>2, <2>3, Zenon DEF GroupsAgree
<1>11. PathsAreOwned'
  BY <1>1, <1>2 DEF IInv, PathsAreOwned, OwnersOf
<1> QED BY <1>5, <1>6, <1>8, <1>9, <1>10, <1>11, Zenon DEF IInv

\* What mergeEnd finds: the pool holds the current state and live, scheduled
\* siblings; the state that waits, if any, is another live one.
LEMMA MergeEndFact ==
  ASSUME IInv, NEW g \in Groups, AtMergeEnd(g)
  PROVE  /\ pc = "exec" /\ groupId[current] = g /\ mergePools[g] \in Pools /\ mergePools[g] # Null
         /\ current \in Live /\ current \in activeStates /\ current \in StateIds
         /\ current # mergePools[g].first
         /\ Siblings(g) = {s \in Live : groupId[s] = g} \ {mergePools[g].first, current}
         /\ Siblings(g) \subseteq activeStates \cap StateIds
         /\ mergePools[g].first # Null =>
              mergePools[g].first \in Live \ activeStates /\ groupId[mergePools[g].first] = g
<1>1. pc = "exec" /\ groupId[current] = g /\ mergePools[g] # Null
  BY Zenon DEF AtMergeEnd
<1>2. mergePools[g] \in Pools
  BY <1>1, Zenon DEF IInv, TypeOK, Pools
<1>3. current \in Live /\ current \in activeStates /\ current \in StateIds
  BY <1>1, Zenon DEF IInv, SetsAgree, SelectedStatesAreLive, TypeOK
<1>4. mergePools[g].first # Null =>
        mergePools[g].first \in Live \ activeStates /\ groupId[mergePools[g].first] = g
  BY <1>1, Zenon DEF IInv, GroupsAgree
<1>5. current # mergePools[g].first
  BY <1>3, <1>4, MergingSearcherAssumption, Zenon
<1>6. Siblings(g) = {s \in Live : groupId[s] = g} \ {mergePools[g].first, current}
  BY <1>1, Zenon DEF Siblings, IInv, PoolsAreExact
<1>7. Siblings(g) \subseteq activeStates \cap StateIds
  BY <1>6, Zenon DEF IInv, SuspendedStatesAreAwaited, TypeOK, Live
<1> QED BY <1>1, <1>2, <1>3, <1>4, <1>5, <1>6, <1>7, Zenon

LEMMA MergeEndAloneKeepsIInv == ASSUME IInv, NEW g \in Groups, MergeEndAlone(g) PROVE IInv'
<1>1. /\ AtMergeEnd(g) /\ Siblings(g) = {} /\ mergePools[g].first = Null
      /\ groupId' = [groupId EXCEPT ![current] = 0]
      /\ mergePools' = [mergePools EXCEPT ![g] = Null]
      /\ pinned' = pinned \ {current}
      /\ UNCHANGED <<nextMergeGroupId, activeStates, currentState, selector, states, removedStates,
                     zombie, current, created, paths, ended, pc>>
  BY Zenon DEF MergeEndAlone, search, engine, history
<1>2. /\ current \in Live /\ current \in activeStates /\ current \in StateIds /\ groupId[current] = g
      /\ {s \in Live : groupId[s] = g} = {current}
  <2>1. Null \notin Live
    BY MergingSearcherAssumption, Zenon DEF IInv, TypeOK, Live
  <2> QED BY <1>1, <2>1, MergeEndFact, Zenon
<1>3. /\ Live' = Live /\ Live \subseteq StateIds
      /\ groupId \in [StateIds -> 0 .. MaxGroups]
      /\ mergePools \in [Groups -> {Null} \cup Pools]
  BY <1>1, Zenon DEF IInv, TypeOK, Live, Pools
<1>4. /\ mergePools'[g] = Null /\ groupId'[current] = 0
      /\ \A h \in Groups \ {g} : mergePools'[h] = mergePools[h]
      /\ \A s \in StateIds \ {current} : groupId'[s] = groupId[s]
      /\ \A h \in Groups : h \in Nat /\ h # 0
      /\ \A s \in Live : groupId'[s] \in Groups => s # current /\ groupId[s] # g
      /\ \A s \in StateIds : groupId'[s] # 0 => groupId'[s] \in Groups
  BY <1>1, <1>2, <1>3 DEF Groups
<1>5. TypeOK'
  <2>1. mergePools' \in [Groups -> {Null} \cup Pools] /\ groupId' \in [StateIds -> 0 .. MaxGroups]
    <3>1. 0 \in 0 .. MaxGroups
      BY MergingSearcherAssumption
    <3>2. groupId' \in [StateIds -> 0 .. MaxGroups]
      BY <3>1, <1>1, <1>3, Zenon
    <3>3. \A h \in Groups : mergePools'[h] \in {Null} \cup Pools
      BY <1>3, <1>4, Zenon
    <3>4. mergePools' \in [Groups -> {Null} \cup Pools]
      BY <1>1, <1>3, <3>3, Zenon
    <3> QED BY <3>2, <3>4, Zenon
  <2> QED BY <1>1, <2>1, Zenon DEF IInv, TypeOK, Pools
<1> USE SMTT(30), ZenonT(30)
<1>6. SetsAgree' /\ SelectedStatesAreLive'
  BY <1>1, <1>3, Zenon DEF IInv, SetsAgree, SelectedStatesAreLive
<1>7. PoolsAreExact'
  <2>1. ASSUME NEW h \in Groups, mergePools'[h] # Null
        PROVE  mergePools'[h].states = {s \in Live' : groupId'[s] = h} \ {mergePools'[h].first}
    <3>1. h # g /\ mergePools'[h] = mergePools[h]
      BY <2>1, <1>4, Zenon
    <3>2. {s \in Live' : groupId'[s] = h} = {s \in Live : groupId[s] = h}
      BY <3>1, <1>2, <1>3, <1>4, Zenon
    <3> QED BY <2>1, <3>1, <3>2, Zenon DEF IInv, PoolsAreExact
  <2>2. ASSUME NEW s \in Live', groupId'[s] # 0 PROVE mergePools'[groupId'[s]] # Null
    <3>1. groupId'[s] = groupId[s] /\ groupId[s] \in Groups \ {g} /\ groupId[s] # 0
      BY <2>2, <1>3, <1>4, Zenon
    <3> QED BY <3>1, <1>3, <1>4, ZenonT(30) DEF IInv, PoolsAreExact
  <2> QED BY <2>1, <2>2, Zenon DEF PoolsAreExact
<1>8. SuspendedStatesAreAwaited'
  <2> SUFFICES ASSUME NEW s \in Live' \ activeStates'
               PROVE  /\ groupId'[s] # 0
                      /\ mergePools'[groupId'[s]].first = s
                      /\ mergePools'[groupId'[s]].states \cap Live' \cap activeStates' # {}
    BY Zenon DEF SuspendedStatesAreAwaited
  <2>1. s \in Live \ activeStates /\ groupId'[s] = groupId[s]
    BY <1>1, <1>2, <1>3, <1>4
  <2>2. groupId[s] # 0
    BY <2>1, Zenon DEF IInv, SuspendedStatesAreAwaited
  <2>3. mergePools'[groupId[s]] = mergePools[groupId[s]]
    BY <2>1, <2>2, <1>3, <1>4, Zenon
  <2> QED BY <2>1, <2>3, <1>1, <1>3, Zenon DEF IInv, SuspendedStatesAreAwaited
<1>9. GroupsAgree'
  <2>1. ASSUME NEW h \in Groups, mergePools'[h] # Null, mergePools'[h].first # Null
        PROVE  mergePools'[h].first \in Live' \ activeStates' /\ groupId'[mergePools'[h].first] = h
    <3>1. h # g /\ mergePools'[h] = mergePools[h]
      BY <2>1, <1>4, Zenon
    <3>2. mergePools[h].first \in Live \ activeStates /\ groupId[mergePools[h].first] = h
      BY <2>1, <3>1, Zenon DEF IInv, GroupsAgree
    <3> QED BY <3>1, <3>2, <1>1, <1>2, <1>3, <1>4, Zenon
  <2>2. \A s \in Live' : groupId'[s] # 0 => s \in pinned'
    BY <1>1, <1>3, <1>4, Zenon DEF IInv, GroupsAgree
  <2>3. \A s \in StateIds : groupId'[s] < nextMergeGroupId'
    <3>1. \A s \in StateIds : groupId[s] < nextMergeGroupId
      BY Zenon DEF IInv, GroupsAgree
    <3>2. groupId[current] \in Nat /\ nextMergeGroupId \in Nat
      BY <1>2, <1>3 DEF IInv, TypeOK
    <3> QED BY <1>1, <1>2, <1>4, <3>1, <3>2
  <2> QED BY <2>1, <2>2, <2>3, Zenon DEF GroupsAgree
<1>10. PathsAreOwned'
  BY <1>1, <1>3 DEF IInv, PathsAreOwned, OwnersOf
<1> QED BY <1>5, <1>6, <1>7, <1>8, <1>9, <1>10, Zenon DEF IInv

LEMMA MergeEndFirstKeepsIInv == ASSUME IInv, NEW g \in Groups, MergeEndFirst(g) PROVE IInv'
<1> DEFINE pool == [first |-> current, states |-> Siblings(g)]
<1> USE SMTT(30), ZenonT(30)
<1>1. /\ AtMergeEnd(g) /\ Siblings(g) # {} /\ mergePools[g].first = Null
      /\ mergePools' = [mergePools EXCEPT ![g] = pool]
      /\ activeStates' = activeStates \ {current}
      /\ currentState' = IF currentState = current THEN Null ELSE currentState
      /\ pc' = "yielded"
      /\ UNCHANGED <<nextMergeGroupId, groupId, pinned, selector, states, removedStates, zombie,
                     current, created, paths, ended>>
  BY Zenon DEF MergeEndFirst, engine, history
<1>2. /\ current \in Live /\ current \in activeStates /\ current \in StateIds /\ groupId[current] = g
      /\ Siblings(g) = {s \in Live : groupId[s] = g} \ {current}
      /\ Siblings(g) \subseteq activeStates \cap StateIds
      /\ mergePools[g] # Null
  <2>1. Null \notin Live
    BY MergingSearcherAssumption, Zenon DEF IInv, TypeOK, Live
  <2> QED BY <1>1, <2>1, MergeEndFact, ZenonT(30)
<1>3. /\ Live' = Live /\ Live \subseteq StateIds
      /\ groupId \in [StateIds -> 0 .. MaxGroups]
      /\ mergePools \in [Groups -> {Null} \cup Pools]
  BY <1>1, Zenon DEF IInv, TypeOK, Live, Pools
<1>4. pool \in Pools /\ pool.first = current /\ pool.states = Siblings(g) /\ pool # Null
  BY <1>2, MergingSearcherAssumption DEF Pools
<1> HIDE DEF pool
<1>5. mergePools'[g] = pool /\ \A h \in Groups \ {g} : mergePools'[h] = mergePools[h]
  BY <1>1, <1>3, Zenon
<1>6. TypeOK'
  <2>1. mergePools' \in [Groups -> {Null} \cup Pools]
    BY <1>1, <1>3, <1>4, Zenon
  <2> QED BY <1>1, <2>1, Zenon DEF IInv, TypeOK, Pools, PC
<1>7. SetsAgree' /\ SelectedStatesAreLive'
  BY <1>1, <1>3, Zenon DEF IInv, SetsAgree, SelectedStatesAreLive
<1>8. PoolsAreExact'
  <2>1. ASSUME NEW h \in Groups, mergePools'[h] # Null
        PROVE  mergePools'[h].states = {s \in Live' : groupId'[s] = h} \ {mergePools'[h].first}
    BY <2>1, <1>1, <1>2, <1>3, <1>4, <1>5 DEF IInv, PoolsAreExact
  <2>2. ASSUME NEW s \in Live', groupId'[s] # 0 PROVE mergePools'[groupId'[s]] # Null
    <3>1. groupId[s] \in Groups /\ mergePools[groupId[s]] # Null
      BY <2>2, <1>1, <1>3 DEF IInv, PoolsAreExact, Groups
    <3> QED BY <3>1, <1>1, <1>4, <1>5, Zenon
  <2> QED BY <2>1, <2>2, Zenon DEF PoolsAreExact
<1>9. SuspendedStatesAreAwaited'
  <2> SUFFICES ASSUME NEW s \in Live' \ activeStates'
               PROVE  /\ groupId'[s] # 0
                      /\ mergePools'[groupId'[s]].first = s
                      /\ mergePools'[groupId'[s]].states \cap Live' \cap activeStates' # {}
    BY Zenon DEF SuspendedStatesAreAwaited
  <2>1. CASE s = current
    BY <2>1, <1>1, <1>2, <1>3, <1>4, <1>5 DEF Groups
  <2>2. CASE s # current
    <3>1. s \in Live \ activeStates
      BY <2>2, <1>1, <1>3, Zenon
    <3>2. /\ groupId[s] # 0
          /\ mergePools[groupId[s]].first = s
          /\ mergePools[groupId[s]].states \cap Live \cap activeStates # {}
      BY <3>1, Zenon DEF IInv, SuspendedStatesAreAwaited
    <3>3. groupId[s] \in Groups \ {g}
      BY <3>1, <3>2, <1>1, <1>3, MergingSearcherAssumption DEF Groups
    <3>4. mergePools[groupId[s]] # Null
      BY <3>1, <3>2, Zenon DEF IInv, PoolsAreExact
    <3>5. current \notin mergePools[groupId[s]].states
      BY <3>3, <3>4, <1>2 DEF IInv, PoolsAreExact
    <3> QED BY <3>2, <3>3, <3>5, <1>1, <1>3, <1>5
  <2> QED BY <2>1, <2>2, Zenon
<1>10. GroupsAgree'
  <2>1. ASSUME NEW h \in Groups, mergePools'[h] # Null, mergePools'[h].first # Null
        PROVE  mergePools'[h].first \in Live' \ activeStates' /\ groupId'[mergePools'[h].first] = h
    <3>1. CASE h = g
      BY <3>1, <1>1, <1>2, <1>3, <1>4, <1>5, Zenon
    <3>2. CASE h # g
      BY <2>1, <3>2, <1>1, <1>3, <1>5, Zenon DEF IInv, GroupsAgree
    <3> QED BY <3>1, <3>2, Zenon
  <2>2. \A s \in Live' : groupId'[s] # 0 => s \in pinned'
    BY <1>1, <1>3, Zenon DEF IInv, GroupsAgree
  <2>3. \A s \in StateIds : groupId'[s] < nextMergeGroupId'
    BY <1>1, Zenon DEF IInv, GroupsAgree
  <2> QED BY <2>1, <2>2, <2>3, Zenon DEF GroupsAgree
<1>11. PathsAreOwned'
  BY <1>1, <1>3 DEF IInv, PathsAreOwned, OwnersOf
<1> QED BY <1>6, <1>7, <1>8, <1>9, <1>10, <1>11, Zenon DEF IInv

LEMMA MergeEndNextKeepsIInv ==
  ASSUME IInv, NEW g \in Groups, NEW success \in BOOLEAN, MergeEndNext(g, success) PROVE IInv'
<1> DEFINE first == mergePools[g].first
           closed == Siblings(g) = {}
<1> USE SMTT(30), ZenonT(30)
<1>1. /\ AtMergeEnd(g) /\ first # Null
      /\ paths' = [paths EXCEPT ![first] = IF success THEN @ \cup paths[current] ELSE @]
      /\ CloseGroup(g, first)
      /\ groupId' = GroupIdsAfter(g, first, success)
      /\ IF success
         THEN /\ removedStates' = removedStates \cup {current}
              /\ zombie' = zombie \cup {current}
              /\ pc' = "yielded"
         ELSE UNCHANGED <<removedStates, zombie, pc>>
      /\ UNCHANGED <<nextMergeGroupId, currentState, selector, states, current, created, ended>>
  BY Zenon DEF MergeEndNext
<1>2. /\ pc = "exec" /\ groupId[current] = g /\ mergePools[g] \in Pools /\ mergePools[g] # Null
      /\ current \in Live /\ current \in activeStates /\ current \in StateIds
      /\ current # first /\ first \in Live \ activeStates /\ groupId[first] = g
      /\ Siblings(g) = {s \in Live : groupId[s] = g} \ {first, current}
      /\ Siblings(g) \subseteq activeStates \cap StateIds
  BY <1>1, MergeEndFact, Zenon
<1>3. /\ Live \subseteq StateIds /\ first \in StateIds
      /\ groupId \in [StateIds -> 0 .. MaxGroups]
      /\ mergePools \in [Groups -> {Null} \cup Pools]
      /\ paths \in [StateIds -> SUBSET StateIds]
      /\ \A h \in Groups : h # 0 /\ h \in Nat
  BY <1>2 DEF IInv, TypeOK, Live, Pools, Groups
<1> HIDE DEF first, closed
<1>4. /\ Live' = IF success THEN Live \ {current} ELSE Live
      /\ Live' \subseteq Live
  BY <1>1, <1>2, Zenon DEF Live
<1>5. /\ groupId'[first] = IF closed THEN 0 ELSE g
      /\ groupId'[current] = IF success THEN g ELSE 0
      /\ \A s \in StateIds \ {first, current} : groupId'[s] = groupId[s]
  BY <1>1, <1>2, <1>3, Zenon DEF GroupIdsAfter, closed
<1>6. /\ \A h \in Groups \ {g} : mergePools'[h] = mergePools[h]
      /\ closed => /\ mergePools'[g] = Null
                   /\ activeStates' = activeStates \cup {first}
                   /\ pinned' = pinned \ {first}
      /\ ~closed => /\ mergePools'[g] \in Pools
                    /\ mergePools'[g] # Null
                    /\ mergePools'[g].first = first
                    /\ mergePools'[g].states = Siblings(g)
                    /\ activeStates' = activeStates
                    /\ pinned' = pinned
  <2>1. CASE closed
    BY <2>1, <1>1, <1>3, Zenon DEF CloseGroup, closed
  <2>2. CASE ~closed
    <3>1. mergePools' = [mergePools EXCEPT ![g].states = Siblings(g)] /\ UNCHANGED <<activeStates, pinned>>
      BY <2>2, <1>1, Zenon DEF CloseGroup, closed
    <3>2. mergePools'[g] = [mergePools[g] EXCEPT !.states = Siblings(g)]
      BY <3>1, <1>3, Zenon
    <3>3. /\ mergePools'[g] \in Pools /\ mergePools'[g].first = first
          /\ mergePools'[g].states = Siblings(g)
      BY <3>2, <1>2, ZenonT(30) DEF Pools, first
    <3>4. mergePools'[g] # Null
      BY <3>3, MergingSearcherAssumption, Zenon DEF Pools
    <3>5. \A h \in Groups \ {g} : mergePools'[h] = mergePools[h]
      BY <3>1, <1>3, Zenon
    <3> QED BY <2>2, <3>1, <3>3, <3>4, <3>5, Zenon
  <2> QED BY <2>1, <2>2, Zenon
<1>7. {s \in Live' : groupId'[s] = g} = Siblings(g) \cup (IF closed THEN {} ELSE {first})
  <2>1. CASE success
    BY <2>1, <1>2, <1>3, <1>4, <1>5, ZenonT(30)
  <2>2. CASE ~success
    BY <2>2, <1>2, <1>3, <1>4, <1>5, ZenonT(30)
  <2> QED BY <2>1, <2>2, Zenon
<1>8. \A h \in Groups \ {g} : {s \in Live' : groupId'[s] = h} = {s \in Live : groupId[s] = h}
  <2>1. CASE success
    BY <2>1, <1>2, <1>3, <1>4, <1>5, Zenon
  <2>2. CASE ~success
    BY <2>2, <1>2, <1>3, <1>4, <1>5, ZenonT(30)
  <2> QED BY <2>1, <2>2, Zenon
<1>9. \A s \in StateIds : groupId'[s] \in {0, groupId[s]}
  BY <1>2, <1>5, Zenon
<1>10. TypeOK'
  <2>1. mergePools' \in [Groups -> {Null} \cup Pools]
    <3>1. CASE closed
      BY <3>1, <1>1, <1>3, Zenon DEF CloseGroup, closed
    <3>2. CASE ~closed
      <4>1. mergePools' = [mergePools EXCEPT ![g] = mergePools'[g]]
        BY <3>2, <1>1, <1>3, Zenon DEF CloseGroup, closed
      <4> QED BY <4>1, <3>2, <1>3, <1>6, Zenon
    <3> QED BY <3>1, <3>2, Zenon
  <2>2. groupId' \in [StateIds -> 0 .. MaxGroups]
    <3>1. groupId' = [s \in StateIds |-> groupId'[s]]
      BY <1>1, Zenon DEF GroupIdsAfter
    <3>2. 0 \in 0 .. MaxGroups
      BY MergingSearcherAssumption
    <3>3. \A s \in StateIds : groupId'[s] \in 0 .. MaxGroups
      BY <3>2, <1>3, <1>9, Zenon
    <3> QED BY <3>1, <3>3, Zenon
  <2>3. paths' \in [StateIds -> SUBSET StateIds]
    <3>1. CASE success
      BY <3>1, <1>1, <1>2, <1>3, Zenon
    <3>2. CASE ~success
      BY <3>2, <1>1, <1>2, <1>3, Zenon
    <3> QED BY <3>1, <3>2, Zenon
  <2>4. activeStates' \subseteq StateIds /\ pinned' \subseteq StateIds
    BY <1>3, <1>6, Zenon DEF IInv, TypeOK
  <2>5. removedStates' \subseteq states' /\ zombie' \subseteq StateIds /\ pc' \in PC
    <3>1. CASE success
      BY <3>1, <1>1, <1>2, Zenon DEF IInv, TypeOK, PC, Live
    <3>2. CASE ~success
      BY <3>2, <1>1, Zenon DEF IInv, TypeOK
    <3> QED BY <3>1, <3>2, Zenon
  <2>6. UNCHANGED <<nextMergeGroupId, currentState, selector, states, current, created, ended>>
    BY <1>1, Zenon
  <2> QED BY <2>1, <2>2, <2>3, <2>4, <2>5, <2>6, Zenon DEF IInv, TypeOK, Pools
<1>11. SetsAgree' /\ SelectedStatesAreLive'
  <2>1. activeStates' \subseteq states /\ activeStates \subseteq activeStates'
    BY <1>2, <1>6, Zenon DEF IInv, SetsAgree, Live
  <2>2. CASE success
    BY <2>1, <2>2, <1>1, <1>2, <1>4 DEF IInv, SetsAgree, SelectedStatesAreLive, Live
  <2>3. CASE ~success
    BY <2>1, <2>3, <1>1, <1>2, <1>4, Zenon DEF IInv, SetsAgree, SelectedStatesAreLive
  <2> QED BY <2>2, <2>3, Zenon
<1>12. PoolsAreExact'
  <2>1. ASSUME NEW h \in Groups, mergePools'[h] # Null
        PROVE  mergePools'[h].states = {s \in Live' : groupId'[s] = h} \ {mergePools'[h].first}
    <3>1. CASE h = g
      BY <2>1, <3>1, <1>2, <1>6, <1>7
    <3>2. CASE h # g
      BY <2>1, <3>2, <1>6, <1>8 DEF IInv, PoolsAreExact
    <3> QED BY <3>1, <3>2, Zenon
  <2>2. ASSUME NEW s \in Live', groupId'[s] # 0 PROVE mergePools'[groupId'[s]] # Null
    <3>1. groupId'[s] = groupId[s] /\ groupId[s] # 0 /\ s \in Live
      BY <2>2, <1>3, <1>4, <1>9, Zenon
    <3>2. groupId[s] \in Groups /\ mergePools[groupId[s]] # Null
      BY <3>1, <1>3 DEF IInv, PoolsAreExact, Groups
    <3>3. CASE groupId[s] = g
      <4>1. ~closed
        BY <3>1, <3>3, <1>7, Zenon DEF closed
      <4> QED BY <4>1, <3>1, <3>3, <1>6, Zenon
    <3>4. CASE groupId[s] # g
      BY <3>1, <3>2, <3>4, <1>6, Zenon
    <3> QED BY <3>3, <3>4, Zenon
  <2> QED BY <2>1, <2>2, Zenon DEF PoolsAreExact
<1>13. SuspendedStatesAreAwaited'
  <2> SUFFICES ASSUME NEW s \in Live' \ activeStates'
               PROVE  /\ groupId'[s] # 0
                      /\ mergePools'[groupId'[s]].first = s
                      /\ mergePools'[groupId'[s]].states \cap Live' \cap activeStates' # {}
    BY Zenon DEF SuspendedStatesAreAwaited
  <2>1. s \in Live \ activeStates /\ s # current
    BY <1>2, <1>4, <1>6
  <2>2. /\ groupId[s] # 0
        /\ mergePools[groupId[s]].first = s
        /\ mergePools[groupId[s]].states \cap Live \cap activeStates # {}
    BY <2>1, Zenon DEF IInv, SuspendedStatesAreAwaited
  <2>3. groupId[s] \in Groups /\ mergePools[groupId[s]] # Null
    BY <2>1, <2>2, <1>3 DEF IInv, PoolsAreExact, Groups
  <2>4. CASE groupId[s] = g
    <3>1. s = first
      BY <2>2, <2>4, Zenon DEF first
    <3>2. ~closed
      BY <3>1, <1>6, Zenon
    <3>3. Siblings(g) # {} /\ Siblings(g) \subseteq Live' /\ Siblings(g) \subseteq activeStates'
      BY <3>2, <1>2, <1>6, <1>7, Zenon DEF closed
    <3> QED BY <3>1, <3>2, <3>3, <1>3, <1>5, <1>6
  <2>5. CASE groupId[s] # g
    <3>1. s # first /\ groupId'[s] = groupId[s] /\ mergePools'[groupId[s]] = mergePools[groupId[s]]
      BY <2>1, <2>3, <2>5, <1>2, <1>3, <1>5, <1>6, Zenon
    <3>2. current \notin mergePools[groupId[s]].states
      BY <2>3, <2>5, <1>2 DEF IInv, PoolsAreExact
    <3>3. activeStates \subseteq activeStates' /\ Live \ {current} \subseteq Live'
      BY <1>4, <1>6, Zenon
    <3> QED BY <2>2, <3>1, <3>2, <3>3, Zenon
  <2> QED BY <2>4, <2>5, Zenon
<1>14. GroupsAgree'
  <2>1. ASSUME NEW h \in Groups, mergePools'[h] # Null, mergePools'[h].first # Null
        PROVE  mergePools'[h].first \in Live' \ activeStates' /\ groupId'[mergePools'[h].first] = h
    <3>1. CASE h = g
      <4>1. ~closed
        BY <2>1, <3>1, <1>6, Zenon
      <4> QED BY <3>1, <4>1, <1>2, <1>4, <1>5, <1>6, Zenon
    <3>2. CASE h # g
      <4>1. mergePools'[h] = mergePools[h]
        BY <3>2, <1>6, Zenon
      <4>2. mergePools[h].first \in Live \ activeStates /\ groupId[mergePools[h].first] = h
        BY <4>1, <2>1, Zenon DEF IInv, GroupsAgree
      <4>3. mergePools[h].first \notin {first, current} /\ mergePools[h].first \in StateIds
        BY <4>2, <3>2, <1>2, <1>3, Zenon
      <4> QED BY <4>1, <4>2, <4>3, <1>4, <1>5, <1>6, Zenon
    <3> QED BY <3>1, <3>2, Zenon
  <2>2. ASSUME NEW s \in Live', groupId'[s] # 0 PROVE s \in pinned'
    <3>1. s \in Live /\ groupId[s] # 0
      BY <2>2, <1>3, <1>4, <1>9, Zenon
    <3>2. s \in pinned
      BY <3>1, Zenon DEF IInv, GroupsAgree
    <3>3. closed => s # first
      BY <2>2, <1>5, Zenon
    <3> QED BY <3>2, <3>3, <1>6, Zenon
  <2>3. \A s \in StateIds : groupId'[s] < nextMergeGroupId'
    BY <1>1, <1>3, <1>9 DEF IInv, GroupsAgree, TypeOK
  <2> QED BY <2>1, <2>2, <2>3, Zenon DEF GroupsAgree
<1>15. PathsAreOwned'
  <2>1. CASE ~success
    <3>1. paths' = paths /\ Live' = Live
      BY <2>1, <1>1, <1>3, <1>4, Zenon
    <3>2. created' = created /\ ended' = ended
      BY <1>1, Zenon
    <3>3. \A p : OwnersOf(p)' = OwnersOf(p)
      BY <3>1, Zenon DEF OwnersOf
    <3>4. PathsAreOwned
      BY Zenon DEF IInv
    <3> QED BY <3>1, <3>2, <3>3, <3>4, Zenon DEF PathsAreOwned
  <2>2. CASE success
    <3>1. /\ paths'[first] = paths[first] \cup paths[current]
          /\ \A s \in StateIds \ {first} : paths'[s] = paths[s]
      BY <2>2, <1>1, <1>3, Zenon
    <3>2. \A s \in StateIds : paths'[s] \subseteq created'
      BY <3>1, <1>1, <1>2, <1>3, Zenon DEF IInv, PathsAreOwned
    <3>3. ASSUME NEW p \in created' \ ended' PROVE \E s \in Live' : OwnersOf(p)' = {s}
      <4>1. PICK s \in Live : OwnersOf(p) = {s}
        BY <3>3, <1>1, Zenon DEF IInv, PathsAreOwned
      <4>2. Live' = Live \ {current} /\ first \in Live' /\ current \notin Live'
        BY <2>2, <1>2, <1>4, Zenon
      <4>3. \A u \in Live : p \in paths[u] <=> u = s
        BY <4>1, Zenon DEF OwnersOf
      <4>4. \A u \in Live' : p \in paths'[u] <=> (u = s \/ (u = first /\ s = current))
        BY <4>2, <4>3, <3>1, <1>2, <1>3, Zenon
      <4>5. CASE s = current
        <5>1. OwnersOf(p)' = {first}
          BY <4>2, <4>4, <4>5, Zenon DEF OwnersOf
        <5> QED BY <5>1, <4>2, Zenon
      <4>6. CASE s # current
        <5>1. OwnersOf(p)' = {s}
          BY <4>2, <4>4, <4>6, Zenon DEF OwnersOf
        <5> QED BY <5>1, <4>2, <4>6, Zenon
      <4> QED BY <4>5, <4>6, Zenon
    <3> QED BY <3>2, <3>3, Zenon DEF PathsAreOwned
  <2> QED BY <2>1, <2>2, Zenon
<1> QED BY <1>10, <1>11, <1>12, <1>13, <1>14, <1>15, Zenon DEF IInv

-------------------------------------------------------------------------------
LEMMA NextIInv == IInv /\ [Next]_vars => IInv'
<1> USE SMTT(30), ZenonT(30)
<1>1. ASSUME IInv, UNCHANGED vars PROVE IInv'
  <2>1. UNCHANGED <<mergePools, nextMergeGroupId, groupId, pinned, activeStates, currentState,
                    selector, states, removedStates, zombie, current, created, paths, ended, pc>>
    BY <1>1, Zenon DEF vars, pools, search, engine, history
  <2>2. Live' = Live /\ \A p : OwnersOf(p)' = OwnersOf(p)
    BY <2>1, Zenon DEF Live, OwnersOf
  <2>3. TypeOK' /\ SetsAgree' /\ SelectedStatesAreLive'
    BY <1>1, <2>1, <2>2, Zenon DEF IInv, TypeOK, SetsAgree, SelectedStatesAreLive
  <2>4. PoolsAreExact' /\ SuspendedStatesAreAwaited' /\ GroupsAgree'
    BY <1>1, <2>1, <2>2, Zenon DEF IInv, PoolsAreExact, SuspendedStatesAreAwaited, GroupsAgree
  <2>5. PathsAreOwned'
    BY <1>1, <2>1, <2>2, Zenon DEF IInv, PathsAreOwned
  <2> QED BY <2>3, <2>4, <2>5, Zenon DEF IInv
<1>2. ASSUME IInv, Next PROVE IInv'
  <2>1. CASE \E s \in StateIds : Fork(s)
    BY <1>2, <2>1, ForkKeepsIInv, Zenon
  <2>2. CASE MergeStart
    BY <1>2, <2>2, MergeStartKeepsIInv, Zenon
  <2>3. CASE \E g \in Groups : MergeEndAlone(g)
    BY <1>2, <2>3, MergeEndAloneKeepsIInv, Zenon
  <2>4. CASE \E g \in Groups : MergeEndFirst(g)
    BY <1>2, <2>4, MergeEndFirstKeepsIInv, Zenon
  <2>5. CASE \E g \in Groups, success \in BOOLEAN : MergeEndNext(g, success)
    BY <1>2, <2>5, MergeEndNextKeepsIInv, Zenon
  <2>6. CASE InstructionDone
    BY <1>2, <2>6, InstructionDoneKeepsIInv, Zenon
  <2>7. CASE \E killed \in SUBSET states, s \in StateIds : StateSwitchTimer(killed, s)
    BY <1>2, <2>7, StateSwitchTimerKeepsIInv, Zenon
  <2>8. CASE \E killed \in SUBSET states : AllTerminated(killed)
    BY <1>2, <2>8, AllTerminatedKeepsIInv, Zenon
  <2>9. CASE \E s \in StateIds : groupId[s] = 0 /\ Terminate(s)
    BY <1>2, <2>9, TerminateKeepsIInv, Zenon
  <2> QED
    BY <1>2, <2>1, <2>2, <2>3, <2>4, <2>5, <2>6, <2>7, <2>8, <2>9, Zenon DEF Next, EngineNext
<1> QED BY <1>1, <1>2, Zenon

\* A path with one owner is represented once.
LEMMA OwnedPathsAreKept == IInv => PathsAreKept
BY Zenon DEF IInv, PathsAreOwned, OwnersOf, PathsAreKept

\* For any number of states and groups: the engine only runs states that the
\* searcher schedules, the pools are exact, and a path suspended at
\* s2e_merge_group_end is awaited by a live state that will resume it, whatever
\* forks, merges and load balancing do in between (MergingSearcher, doLoadBalancing).
THEOREM MergingSearcherSafety ==
  Spec => [](TypeOK /\ SelectedStatesAreLive /\ PoolsAreExact /\ SuspendedStatesAreAwaited)
<1>1. IInv => TypeOK /\ SelectedStatesAreLive /\ PoolsAreExact /\ SuspendedStatesAreAwaited
  BY Zenon DEF IInv
<1> QED BY <1>1, InitIInv, NextIInv, PTL DEF Spec

\* Merging neither loses nor duplicates a path: each path that was forked and not
\* terminated is represented by exactly one live state (mergeEnd).
THEOREM MergingKeepsPaths == Spec => []PathsAreKept
BY OwnedPathsAreKept, InitIInv, NextIInv, PTL DEF Spec

\* selectNextState never gets a terminated or suspended state from MergingSearcher.
THEOREM SelectedStatesStayLive == Spec => []SelectedStatesAreLive
BY MergingSearcherSafety, PTL


\* A merge pool has exactly the live states of its group that have not arrived at
\* the end, through forks, merges and terminations (update, mergeStart, mergeEnd).
THEOREM PoolsStayExact == Spec => []PoolsAreExact
BY MergingSearcherSafety, PTL

===============================================================================
