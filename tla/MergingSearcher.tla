---------------------------- MODULE MergingSearcher ----------------------------
(***************************************************************************)
(* The searcher that merges paths: MergingSearcher, the calls it makes to  *)
(* S2EExecutor::merge, yield and terminateState, and the parts of the      *)
(* engine that act on its states behind its back (forks, the batched       *)
(* update of the state sets, terminations, load balancing).                *)
(*                                                                         *)
(* A guest brackets a subtree of paths by s2e_merge_group_begin and        *)
(* s2e_merge_group_end.  The first path that arrives at the end is         *)
(* suspended; the other paths of the group are merged into it one by one   *)
(* and killed, and the last one resumes it.                                *)
(***************************************************************************)
EXTENDS Integers, FiniteSets

CONSTANTS
  StateIds,   \* bound: the states that can ever be created
  First,      \* the initial state
  Null,
  MaxGroups   \* bound: calls of s2e_merge_group_begin that open a group

ASSUME MergingSearcherAssumption ==
  /\ First \in StateIds
  /\ Null \notin StateIds
  /\ Null \notin [first : StateIds \cup {Null}, states : SUBSET StateIds]
  /\ MaxGroups \in Nat

VARIABLES
  mergePools,        \* m_mergePools: Null where the map has no entry
  activeStates,      \* m_activeStates
  currentState,      \* m_currentState
  nextMergeGroupId,  \* m_nextMergeGroupId
  selector,          \* a plugin has installed its own m_selector
  groupId,           \* MergingSearcherState::m_groupId of each state
  pinned,            \* states with m_pinned
  states,            \* Executor::states
  removedStates,     \* Executor::removedStates
  zombie,            \* states with m_zombie
  current,           \* g_s2e_state
  created,           \* history: states that were ever created
  paths,             \* history: the forked paths that each state stands for
  ended,             \* history: paths that were terminated or left to another process
  pc

pools == <<mergePools, nextMergeGroupId, groupId, pinned>>
search == <<activeStates, currentState, selector>>
engine == <<states, removedStates, zombie, current>>
history == <<created, paths, ended>>
vars == <<pools, search, engine, history, pc>>

Groups == 1 .. MaxGroups

\* exec     guest code of the current state runs
\* yielded  the current state yielded or was killed: it does not run any more
\* exited   the searcher is empty
\* aborted  an assertion failed
PC == {"exec", "yielded", "exited", "aborted"}

NewPool == [first |-> Null, states |-> {}]

Live == states \ zombie

-------------------------------------------------------------------------------
\* MergingSearcher::initialize, and the first update.
InitSearcher ==
  /\ mergePools = [g \in Groups |-> Null]
  /\ activeStates = {First}
  /\ currentState = Null
  /\ nextMergeGroupId = 1
  /\ selector \in BOOLEAN

Init ==
  /\ InitSearcher
  /\ groupId = [s \in StateIds |-> 0]
  /\ pinned = {}
  /\ states = {First}
  /\ removedStates = {}
  /\ zombie = {}
  /\ current = First
  /\ created = {First}
  /\ paths = [s \in StateIds |-> IF s = First THEN {First} ELSE {}]
  /\ ended = {}
  /\ pc = "exec"

\* Mutant of PoolsAfter: forked states are not entered in the pool of their group.
PoolsAfterRemovalsOnly(added, removed, gid) ==
  [g \in Groups |->
     IF \E s \in removed \cup added : gid[s] = g
     THEN LET pool == IF mergePools[g] = Null THEN NewPool ELSE mergePools[g]
          IN  [pool EXCEPT !.states = @ \ removed]
     ELSE mergePools[g]]

\* MergingSearcher::update, the pools: operator[] creates a pool that is missing.
PoolsAfter(added, removed, gid) ==
  [g \in Groups |->
     IF \E s \in removed \cup added : gid[s] = g
     THEN LET pool == IF mergePools[g] = Null THEN NewPool ELSE mergePools[g]
          IN  [pool EXCEPT !.states = (@ \ removed) \cup {s \in added : gid[s] = g}]
     ELSE mergePools[g]]

\* Mutant of CurrentAfter: update keeps a current state that was removed.
CurrentAfterKept(removed) == currentState

\* MergingSearcher::update, m_currentState.
CurrentAfter(removed) == IF currentState \in removed THEN Null ELSE currentState

\* Executor::updateStates with the states that were terminated since the last
\* time; added is not terminated yet.
UpdateStates(added, removed, gid) ==
  /\ states' = (states \cup added) \ removed
  /\ removedStates' = {}
  /\ activeStates' = (activeStates \cup added) \ removed
  /\ mergePools' = PoolsAfter(added, removed, gid)

\* Executor::fork and the update at the end of the instruction.  The child
\* inherits the plugin state and the pinning of its parent.
Fork(t) ==
  /\ pc = "exec"
  /\ t \notin created
  /\ created' = created \cup {t}
  /\ groupId' = [groupId EXCEPT ![t] = groupId[current]]
  /\ pinned' = IF current \in pinned THEN pinned \cup {t} ELSE pinned
  /\ paths' = [paths EXCEPT ![t] = {t}]
  /\ UpdateStates({t}, removedStates, groupId')
  /\ currentState' = CurrentAfter(removedStates)
  /\ UNCHANGED <<nextMergeGroupId, selector, zombie, current, ended, pc>>

-------------------------------------------------------------------------------
\* Mutant of MergeStart: the states of a group are not pinned.
MergeStartUnpinned ==
  /\ pc = "exec"
  /\ groupId[current] = 0
  /\ nextMergeGroupId \in Groups
  /\ nextMergeGroupId' = nextMergeGroupId + 1
  /\ groupId' = [groupId EXCEPT ![current] = nextMergeGroupId]
  /\ mergePools' = [mergePools EXCEPT ![nextMergeGroupId] =
                      [first |-> Null, states |-> {current}]]
  /\ UNCHANGED <<pinned, search, engine, history, pc>>

\* mergeStart; in a state that has a group it only warns.
MergeStart ==
  /\ pc = "exec"
  /\ groupId[current] = 0
  /\ nextMergeGroupId \in Groups
  /\ nextMergeGroupId' = nextMergeGroupId + 1
  /\ groupId' = [groupId EXCEPT ![current] = nextMergeGroupId]
  /\ mergePools' = [mergePools EXCEPT ![nextMergeGroupId] =
                      [first |-> Null, states |-> {current}]]
  /\ pinned' = pinned \cup {current}
  /\ UNCHANGED <<search, engine, history, pc>>

\* mergeEnd is called by a state whose group has a pool; in any other state it
\* only warns.
AtMergeEnd(g) ==
  /\ pc = "exec"
  /\ groupId[current] = g
  /\ mergePools[g] # Null

\* The states of the pool after mergePool.states.erase(state).
Siblings(g) == mergePools[g].states \ {current}

\* mergeEnd: nothing was forked in the group.
MergeEndAlone(g) ==
  /\ AtMergeEnd(g)
  /\ Siblings(g) = {}
  /\ mergePools[g].first = Null
  /\ groupId' = [groupId EXCEPT ![current] = 0]
  /\ mergePools' = [mergePools EXCEPT ![g] = Null]
  /\ pinned' = pinned \ {current}
  /\ UNCHANGED <<nextMergeGroupId, search, engine, history, pc>>

\* mergeEnd: the first state of the group to arrive is suspended and yields.
MergeEndFirst(g) ==
  /\ AtMergeEnd(g)
  /\ Siblings(g) # {}
  /\ mergePools[g].first = Null
  /\ mergePools' = [mergePools EXCEPT ![g] = [first |-> current, states |-> Siblings(g)]]
  /\ activeStates' = activeStates \ {current}
  /\ currentState' = IF currentState = current THEN Null ELSE currentState
  /\ pc' = "yielded"
  /\ UNCHANGED <<nextMergeGroupId, groupId, pinned, selector, engine, history>>

\* mergeEnd: the last state of a group resumes the first one and closes the pool.
CloseGroup(g, first) ==
  IF Siblings(g) = {}
  THEN /\ mergePools' = [mergePools EXCEPT ![g] = Null]
       /\ activeStates' = activeStates \cup {first}
       /\ pinned' = pinned \ {first}
  ELSE /\ mergePools' = [mergePools EXCEPT ![g].states = Siblings(g)]
       /\ UNCHANGED <<activeStates, pinned>>

\* The group of the first state ends with the pool; a state whose merge failed
\* leaves the group, one that was merged keeps its id.
GroupIdsAfter(g, first, success) ==
  [s \in StateIds |->
     IF (s = first /\ Siblings(g) = {}) \/ (s = current /\ ~success) THEN 0 ELSE groupId[s]]

\* Mutant of MergeEndNext: the state is killed although the merge failed.
MergeEndNextKills(g, success) ==
  LET first == mergePools[g].first
  IN  /\ AtMergeEnd(g)
      /\ first # Null
      /\ paths' = [paths EXCEPT ![first] = IF success THEN @ \cup paths[current] ELSE @]
      /\ CloseGroup(g, first)
      /\ groupId' = GroupIdsAfter(g, first, success)
      /\ removedStates' = removedStates \cup {current}
      /\ zombie' = zombie \cup {current}
      /\ pc' = "yielded"
      /\ UNCHANGED <<nextMergeGroupId, currentState, selector, states, current, created, ended>>

\* mergeEnd: a later state is merged into the first one and killed, or goes on
\* alone when S2EExecutor::merge fails.
MergeEndNext(g, success) ==
  LET first == mergePools[g].first
  IN  /\ AtMergeEnd(g)
      /\ first # Null
      /\ paths' = [paths EXCEPT ![first] = IF success THEN @ \cup paths[current] ELSE @]
      /\ CloseGroup(g, first)
      /\ groupId' = GroupIdsAfter(g, first, success)
      /\ IF success
         THEN /\ removedStates' = removedStates \cup {current}
              /\ zombie' = zombie \cup {current}
              /\ pc' = "yielded"
         ELSE UNCHANGED <<removedStates, zombie, pc>>
      /\ UNCHANGED <<nextMergeGroupId, currentState, selector, states, current, created, ended>>

-------------------------------------------------------------------------------
\* S2EExecutor::terminateState: by the path itself, or of any state by a plugin
\* or a timer.
Terminate(s) ==
  /\ pc \in {"exec", "yielded"}
  /\ s \in Live
  /\ removedStates' = removedStates \cup {s}
  /\ zombie' = zombie \cup {s}
  /\ ended' = ended \cup paths[s]
  /\ pc' = IF s = current THEN "yielded" ELSE pc
  /\ UNCHANGED <<pools, search, states, current, created, paths>>

\* executeInstructions: in KLEE the states are updated after each instruction, and
\* when an exception unwinds it.
InstructionDone ==
  /\ pc \in {"exec", "yielded"}
  /\ removedStates # {}
  /\ UpdateStates({}, removedStates, groupId)
  /\ currentState' = CurrentAfter(removedStates)
  /\ UNCHANGED <<nextMergeGroupId, groupId, pinned, selector, zombie, current, history, pc>>

\* doLoadBalancing, as one of the two processes sees it: the states of the other
\* partition, which plugins may change, are terminated.  Pinned states stay in both.
Movable == Live \ pinned

LoadBalance(killed) ==
  /\ killed \subseteq Movable
  /\ killed # {} => Cardinality(Movable) >= 2
  /\ zombie' = zombie \cup killed
  /\ ended' = ended \cup UNION {paths[s] : s \in killed}

\* MergingSearcher::selectState: the states it may return.
Selectable(kept, active) == IF selector \/ kept = Null THEN active ELSE {kept}

\* stateSwitchTimerCallback: doLoadBalancing, then selectNextState, which updates
\* the states and asks the searcher for the next one.
StateSwitchTimer(killed, s) ==
  LET removed == removedStates \cup killed
      kept == CurrentAfter(removed)
  IN  /\ pc \in {"exec", "yielded"}
      /\ LoadBalance(killed)
      /\ UpdateStates({}, removed, groupId)
      /\ activeStates' # {}
      /\ s \in Selectable(kept, activeStates')
      /\ currentState' = IF selector THEN kept ELSE s
      /\ current' = s
      /\ pc' = IF s \in states' \ zombie' THEN "exec" ELSE "aborted"
      /\ UNCHANGED <<nextMergeGroupId, groupId, pinned, selector, created, paths>>

\* The same when the searcher is empty: the process exits.
AllTerminated(killed) ==
  LET removed == removedStates \cup killed
  IN  /\ pc \in {"exec", "yielded"}
      /\ LoadBalance(killed)
      /\ UpdateStates({}, removed, groupId)
      /\ activeStates' = {}
      /\ currentState' = CurrentAfter(removed)
      /\ pc' = "exited"
      /\ UNCHANGED <<nextMergeGroupId, groupId, pinned, selector, current, created, paths>>

EngineNext ==
  \/ \E s \in StateIds : Fork(s)
  \/ MergeStart
  \/ \E g \in Groups : MergeEndAlone(g)
  \/ \E g \in Groups : MergeEndFirst(g)
  \/ \E g \in Groups, success \in BOOLEAN : MergeEndNext(g, success)
  \/ InstructionDone
  \/ \E killed \in SUBSET states, s \in StateIds : StateSwitchTimer(killed, s)
  \/ \E killed \in SUBSET states : AllTerminated(killed)

\* The guest keeps to the protocol: every path of a group arrives at
\* s2e_merge_group_end.  Paths outside of groups are terminated at any time.
Next ==
  \/ EngineNext
  \/ \E s \in StateIds : groupId[s] = 0 /\ Terminate(s)

Spec == Init /\ [][Next]_vars

\* Paths of a group are terminated as well.
KillNext ==
  \/ EngineNext
  \/ \E s \in StateIds : Terminate(s)

KillSpec == Init /\ [][KillNext]_vars

-------------------------------------------------------------------------------
\* The variables have the types of the fields of MergingSearcher; group id 0
\* means no group.
TypeOK ==
  /\ mergePools \in [Groups -> {Null} \cup [first : StateIds \cup {Null}, states : SUBSET StateIds]]
  /\ activeStates \subseteq StateIds
  /\ currentState \in StateIds \cup {Null}
  /\ nextMergeGroupId \in 1 .. MaxGroups + 1
  /\ selector \in BOOLEAN
  /\ groupId \in [StateIds -> 0 .. MaxGroups]
  /\ pinned \subseteq StateIds
  /\ states \subseteq StateIds
  /\ removedStates \subseteq states
  /\ zombie \subseteq StateIds
  /\ current \in StateIds
  /\ created \subseteq StateIds
  /\ paths \in [StateIds -> SUBSET StateIds]
  /\ ended \subseteq StateIds
  /\ pc \in PC

\* selectNextState never receives a state that was terminated or suspended:
\* m_currentState is forgotten when its state is removed or waits for a merge
\* (update, suspend).
SelectedStatesAreLive ==
  /\ pc # "aborted"
  /\ pc = "exec" => current \in activeStates

\* A pool holds exactly the live states of its group that have not arrived at the
\* end, whatever was forked, merged and terminated meanwhile, and every group that
\* a live state belongs to has one (update, mergeStart, mergeEnd).
PoolsAreExact ==
  /\ \A g \in Groups : mergePools[g] # Null =>
       mergePools[g].states = {s \in Live : groupId[s] = g} \ {mergePools[g].first}
  /\ \A s \in Live : groupId[s] # 0 => mergePools[groupId[s]] # Null

\* A live state that the searcher does not schedule is the first state of a
\* group, and a state of this group that will resume it can be scheduled.  In
\* particular load balancing never separates the states of a group, and the
\* process does not exit with a path suspended (mergeEnd, suspend, resume,
\* doLoadBalancing).
SuspendedStatesAreAwaited ==
  \A s \in Live \ activeStates :
    /\ groupId[s] # 0
    /\ mergePools[groupId[s]].first = s
    /\ mergePools[groupId[s]].states \cap Live \cap activeStates # {}

\* Merging loses no path and duplicates none: each path that was forked and not
\* terminated is represented by exactly one live state (mergeEnd).
PathsAreKept ==
  \A p \in created \ ended : \E s \in Live : {t \in Live : p \in paths[t]} = {s}
===============================================================================
