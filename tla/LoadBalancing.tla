---------------------------- MODULE LoadBalancing ----------------------------
(***************************************************************************)
(* How execution states are spread over the S2E processes                  *)
(* (S2EExecutor::doLoadBalancing, libs2ecore/src/S2EExecutor.cpp).         *)
(*                                                                         *)
(* A process that has several states and sees a free instance splits them  *)
(* in a set to keep and a set to give away, forks the operating-system     *)
(* process, and each of the two drops the states of the other.  A plugin   *)
(* may keep a state in both sets; the child then gives it a new guid.      *)
(* S2E::fork and the instance table are those of ProcessPool.              *)
(***************************************************************************)
EXTENDS ProcessPool

CONSTANT MaxStateId  \* bound: state ids handed out in a behaviour

ASSUME BalanceAssumption == MaxStateId \in Nat \ {0}

VARIABLES
  lastStateId, \* shared: next state id
  states,      \* ids of the states of each process
  guid,        \* m_guid of the states of each process
  pinned,      \* those with m_pinned set
  phase,       \* where each process is in doLoadBalancing
  parentSet,   \* locals of doLoadBalancing
  childSet,
  newIds,
  toExplore    \* history: guids of the states nobody has terminated

balanceVars == <<lastStateId, states, guid, pinned, phase, parentSet, childSet, newIds, toExplore>>
vars == <<poolVars, balanceVars>>

StateIds == 0 .. MaxStateId - 1
NoIds == [s \in StateIds |-> 0]

\* idle        outside of doLoadBalancing
\* numbering   computeNewStateGuids
\* forking     in S2E::fork
\* parent      S2E::fork returned 0, states not yet dropped
\* child       S2E::fork returns 1 in the new process
Phase == {"idle", "numbering", "forking", "parent", "child"}

Enter(p, ph) == phase' = [phase EXCEPT ![p] = ph]

\* doLoadBalancing returns and its locals are gone.
Return(p) ==
  /\ Enter(p, "idle")
  /\ parentSet' = [parentSet EXCEPT ![p] = {}]
  /\ childSet' = [childSet EXCEPT ![p] = {}]
  /\ newIds' = [newIds EXCEPT ![p] = NoIds]

Idle(p) == pc[p] = "running" /\ phase[p] = "idle"
Common(p) == parentSet[p] \cap childSet[p]
Guids(p) == {guid[p][s] : s \in states[p]}

-------------------------------------------------------------------------------
BalanceInit ==
  /\ PoolInit
  /\ lastStateId = 1
  /\ states = [p \in Procs |-> IF p = Root THEN {0} ELSE {}]
  /\ guid = [p \in Procs |-> NoIds]
  /\ pinned = [p \in Procs |-> {}]
  /\ phase = [p \in Procs |-> "idle"]
  /\ parentSet = [p \in Procs |-> {}]
  /\ childSet = [p \in Procs |-> {}]
  /\ newIds = [p \in Procs |-> NoIds]
  /\ toExplore = {0}

\* S2EExecutionState::clone: id and guid of the new state are the next shared id;
\* it is pinned if its parent is.
StateFork(p, s) ==
  /\ Idle(p)
  /\ s \in states[p]
  /\ lastStateId < MaxStateId
  /\ lastStateId' = lastStateId + 1
  /\ states' = [states EXCEPT ![p] = @ \cup {lastStateId}]
  /\ guid' = [guid EXCEPT ![p][lastStateId] = lastStateId]
  /\ pinned' = [pinned EXCEPT ![p] = IF s \in @ THEN @ \cup {lastStateId} ELSE @]
  /\ toExplore' = toExplore \cup {lastStateId}
  /\ UNCHANGED <<poolVars, phase, parentSet, childSet, newIds>>

TerminateState(p, s) ==
  /\ Idle(p)
  /\ s \in states[p]
  /\ states' = [states EXCEPT ![p] = @ \ {s}]
  /\ guid' = [guid EXCEPT ![p][s] = 0]
  /\ pinned' = [pinned EXCEPT ![p] = @ \ {s}]
  /\ toExplore' = toExplore \ {guid[p][s]}
  /\ UNCHANGED <<poolVars, lastStateId, phase, parentSet, childSet, newIds>>

SetPinned(p, s) ==
  /\ Idle(p)
  /\ s \in states[p] \ pinned[p]
  /\ pinned' = [pinned EXCEPT ![p] = @ \cup {s}]
  /\ UNCHANGED <<poolVars, lastStateId, states, guid, phase, parentSet, childSet, newIds, toExplore>>

\* The states that may be moved.
Movable(p) == states[p] \ pinned[p]

\* doLoadBalancing up to computeNewStateGuids.  splitStates proposes two halves;
\* handlers of onStatesSplit move or copy states between the sets.
BalanceStart(p, keep, give) ==
  /\ Idle(p)
  /\ Cardinality(states[p]) >= 2
  /\ currentInstanceCount # MaxInstances
  /\ Cardinality(Movable(p)) >= 2
  /\ keep \cup give = Movable(p)
  /\ parentSet' = [parentSet EXCEPT ![p] = keep]
  /\ childSet' = [childSet EXCEPT ![p] = give]
  /\ Enter(p, "numbering")
  /\ UNCHANGED <<poolVars, lastStateId, states, guid, pinned, newIds, toExplore>>

\* Mutant of Unnumbered: states in both sets are not renumbered.
NothingToNumber(p) == {}

Unnumbered(p) == {s \in Common(p) : newIds[p][s] = 0}

\* computeNewStateGuids: one fetchAndIncrementStateId per common state.
ComputeNewStateGuid(p, s) ==
  /\ pc[p] = "running"
  /\ phase[p] = "numbering"
  /\ s \in Unnumbered(p)
  /\ lastStateId < MaxStateId
  /\ newIds' = [newIds EXCEPT ![p][s] = lastStateId]
  /\ lastStateId' = lastStateId + 1
  /\ UNCHANGED <<poolVars, states, guid, pinned, phase, parentSet, childSet, toExplore>>

\* S2E::fork finds the instances used up, although doLoadBalancing saw a free one.
BalanceRefused(p) ==
  /\ pc[p] = "running"
  /\ phase[p] = "numbering"
  /\ Unnumbered(p) = {}
  /\ currentInstanceCount = MaxInstances
  /\ Return(p)
  /\ UNCHANGED <<poolVars, lastStateId, states, guid, pinned, toExplore>>

BalanceReserve(p) ==
  /\ phase[p] = "numbering"
  /\ Unnumbered(p) = {}
  /\ ForkReserve(p)
  /\ Enter(p, "forking")
  /\ UNCHANGED <<lastStateId, states, guid, pinned, parentSet, childSet, newIds, toExplore>>

BalanceFailed(p) ==
  /\ ForkFailed(p)
  /\ Return(p)
  /\ UNCHANGED <<lastStateId, states, guid, pinned, toExplore>>

\* The child is a copy of the parent, the locals of doLoadBalancing included.
BalanceForked(p, c) ==
  /\ ForkSucceeded(p, c)
  /\ phase' = [phase EXCEPT ![p] = "parent", ![c] = "child"]
  /\ states' = [states EXCEPT ![c] = states[p]]
  /\ guid' = [guid EXCEPT ![c] = guid[p]]
  /\ pinned' = [pinned EXCEPT ![c] = pinned[p]]
  /\ parentSet' = [parentSet EXCEPT ![c] = parentSet[p]]
  /\ childSet' = [childSet EXCEPT ![c] = childSet[p]]
  /\ newIds' = [newIds EXCEPT ![c] = newIds[p]]
  /\ UNCHANGED <<lastStateId, toExplore>>

ChildStarts(p) ==
  /\ ClaimSlot(p) \/ InitOutputDirectory(p)
  /\ UNCHANGED balanceVars

\* Mutant of DropOtherStates: the child keeps the parent's set.
DropOwnStates(p) ==
  LET split == parentSet[p] \cup childSet[p]
  IN
  /\ pc[p] = "running"
  /\ phase[p] \in {"parent", "child"}
  /\ states' = [states EXCEPT ![p] = (@ \ split) \cup parentSet[p]]
  /\ Return(p)
  /\ UNCHANGED <<poolVars, lastStateId, guid, pinned, toExplore>>

\* The end of doLoadBalancing: of the states that were split, only those of the
\* process's own set are kept, and the child renumbers the common ones.
DropOtherStates(p) ==
  LET mine == IF phase[p] = "child" THEN childSet[p] ELSE parentSet[p]
      split == parentSet[p] \cup childSet[p]
  IN
  /\ pc[p] = "running"
  /\ phase[p] \in {"parent", "child"}
  /\ states' = [states EXCEPT ![p] = (@ \ split) \cup mine]
  /\ guid' = [guid EXCEPT ![p] =
                [s \in StateIds |-> IF s \in split \ mine THEN 0
                                    ELSE IF phase[p] = "child" /\ s \in Common(p) THEN newIds[p][s]
                                    ELSE @[s]]]
  /\ toExplore' = IF phase[p] = "child" THEN toExplore \cup {newIds[p][s] : s \in Common(p)} ELSE toExplore
  /\ Return(p)
  /\ UNCHANGED <<poolVars, lastStateId, pinned>>

\* The process exits and whatever it still had to explore is given up.
ProcessExit(p) ==
  /\ phase[p] = "idle"
  /\ Terminate(p)
  /\ toExplore' = toExplore \ Guids(p)
  /\ states' = [states EXCEPT ![p] = {}]
  /\ guid' = [guid EXCEPT ![p] = NoIds]
  /\ pinned' = [pinned EXCEPT ![p] = {}]
  /\ UNCHANGED <<lastStateId, phase, parentSet, childSet, newIds>>

BalanceNext ==
  \E p \in Procs :
    \/ \E s \in states[p] : StateFork(p, s) \/ TerminateState(p, s)
    \/ \E keep, give \in SUBSET states[p] : BalanceStart(p, keep, give)
    \/ \E s \in Common(p) : ComputeNewStateGuid(p, s)
    \/ BalanceRefused(p)
    \/ BalanceReserve(p)
    \/ BalanceFailed(p)
    \/ \E c \in Procs : BalanceForked(p, c)
    \/ ChildStarts(p)
    \/ DropOtherStates(p)
    \/ ProcessExit(p)

BalanceSpec == BalanceInit /\ [][BalanceNext]_vars

\* The same system with plugins that pin states.
PinningNext ==
  \/ BalanceNext
  \/ \E p \in Procs : \E s \in states[p] : SetPinned(p, s)

PinningSpec == BalanceInit /\ [][PinningNext]_vars

-------------------------------------------------------------------------------
\* The variables have the types of the locals of doLoadBalancing and of the
\* fields of S2EExecutionState; guids are state ids.
BalanceTypeOK ==
  /\ PoolTypeOK
  /\ lastStateId \in 0 .. MaxStateId
  /\ states \in [Procs -> SUBSET StateIds]
  /\ guid \in [Procs -> [StateIds -> StateIds]]
  /\ pinned \in [Procs -> SUBSET StateIds]
  /\ phase \in [Procs -> Phase]
  /\ parentSet \in [Procs -> SUBSET StateIds]
  /\ childSet \in [Procs -> SUBSET StateIds]
  /\ newIds \in [Procs -> [StateIds -> StateIds]]
  /\ toExplore \subseteq StateIds

\* A process that has not dropped the other's states yet runs none of them.
Settled(p) == pc[p] = "running" /\ phase[p] \notin {"parent", "child"}

\* S2EExecutionState.h on m_guid: "This uniquely identifes a state across all S2E
\* instances".  No two states that can run, in one process or in two, have the
\* same guid.
GuidsAreUnique ==
  /\ \A p \in Procs : Settled(p) =>
       \A s, t \in states[p] : guid[p][s] = guid[p][t] => s = t
  /\ \A p, q \in Procs : p # q /\ Settled(p) /\ Settled(q) => Guids(p) \cap Guids(q) = {}

\* Splitting loses no state: what was neither terminated nor given up by an
\* exiting process is held by some process, whichever forks failed and however
\* the plugins arranged the two sets.
NoStateIsLost ==
  \A g \in toExplore : \E p \in Procs :
    pc[p] \in {"running", "forking", "starting", "claimed"} /\
    \E s \in states[p] :
      IF phase[p] = "child"
      THEN s \in childSet[p] \ parentSet[p] /\ guid[p][s] = g
      ELSE guid[p][s] = g /\ (phase[p] = "parent" => s \in parentSet[p])

===============================================================================
