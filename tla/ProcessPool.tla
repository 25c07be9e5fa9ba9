----------------------------- MODULE ProcessPool -----------------------------
(***************************************************************************)
(* The S2E processes of one run and the S2EShared block they coordinate    *)
(* through: S2E::initialize, S2E::fork and S2E::~S2E                       *)
(* (libs2ecore/src/S2E.cpp, include/s2e/S2E.h).                            *)
(*                                                                         *)
(* Each section between m_sync.acquire() and m_sync.release() is one step: *)
(* the compare-and-exchange of S2ESynchronizedObjectInternal::tryAcquire   *)
(* lets one process at a time through.  Between two sections any number of *)
(* steps of the other processes may happen.                                *)
(***************************************************************************)
EXTENDS Integers, FiniteSets

CONSTANTS
  Procs,             \* operating-system processes; each is used once
  Root,              \* the process that runs S2E::initialize
  MaxInstances,      \* m_maxInstances
  S2E_MAX_PROCESSES, \* length of S2EShared::instanceIds
  NoInstance,        \* the value (unsigned) -1 of a free slot
  MaxFileId          \* bound: instance ids handed out in a behaviour

VARIABLES
  currentInstanceCount, \* shared
  lastFileId,           \* shared
  instanceIds,          \* shared
  pc,                   \* where each process is
  newProcessId,         \* local of S2E::fork
  instanceId,           \* m_currentInstanceId
  instanceIndex,        \* m_currentInstanceIndex
  directories           \* ids of the output directories that exist

poolVars == <<currentInstanceCount, lastFileId, instanceIds, pc, newProcessId,
              instanceId, instanceIndex, directories>>

Slots == 0 .. S2E_MAX_PROCESSES - 1
Usable == 0 .. MaxInstances - 1

ASSUME PoolAssumption ==
  /\ Root \in Procs
  /\ IsFiniteSet(Procs)
  /\ S2E_MAX_PROCESSES \in Nat
  /\ MaxInstances \in 1 .. S2E_MAX_PROCESSES
  /\ NoInstance \notin Nat
  /\ MaxFileId \in Nat

\* unborn    no such process yet
\* running   outside of S2E::fork and S2E::~S2E
\* forking   reserved an instance, ::fork() not yet returned
\* starting  child of ::fork(), has no slot yet
\* claimed   child with a slot, output directory not yet created
\* dead      S2E::~S2E has run
\* aborted   an assertion failed
PC == {"unborn", "running", "forking", "starting", "claimed", "dead", "aborted"}

Goto(p, to) == pc' = [pc EXCEPT ![p] = to]
Check(p, ok, to) == Goto(p, IF ok THEN to ELSE "aborted")

Occupied == {i \in Slots : instanceIds[i] # NoInstance}
Pending == {p \in Procs : pc[p] \in {"forking", "starting"}}
Registered == {p \in Procs : pc[p] \in {"running", "forking", "claimed"}}

-------------------------------------------------------------------------------
\* The S2EShared constructor and S2E::initialize.
PoolInit ==
  /\ currentInstanceCount = 1
  /\ lastFileId = 1
  /\ instanceIds = [i \in Slots |-> IF i = 0 THEN 0 ELSE NoInstance]
  /\ pc = [p \in Procs |-> IF p = Root THEN "running" ELSE "unborn"]
  /\ newProcessId = [p \in Procs |-> 0]
  /\ instanceId = [p \in Procs |-> 0]
  /\ instanceIndex = [p \in Procs |-> 0]
  /\ directories = {0}

\* S2E::fork, first section, when an instance is left.
ForkReserve(p) ==
  /\ pc[p] = "running"
  /\ currentInstanceCount # MaxInstances
  /\ lastFileId < MaxFileId
  /\ newProcessId' = [newProcessId EXCEPT ![p] = lastFileId]
  /\ lastFileId' = lastFileId + 1
  /\ currentInstanceCount' = currentInstanceCount + 1
  /\ Check(p, currentInstanceCount > 0, "forking")
  /\ UNCHANGED <<instanceIds, instanceId, instanceIndex, directories>>

\* Mutant of ForkFailed: the instance is not given back.
ForkFailedKeepsInstance(p) ==
  /\ pc[p] = "forking"
  /\ Check(p, currentInstanceCount > 1, "running")
  /\ UNCHANGED <<currentInstanceCount, lastFileId, instanceIds, newProcessId, instanceId,
                 instanceIndex, directories>>

\* ::fork() returned an error: the instance is given back, the id is not.
ForkFailed(p) ==
  /\ pc[p] = "forking"
  /\ currentInstanceCount' = currentInstanceCount - 1
  /\ Check(p, currentInstanceCount > 1, "running")
  /\ UNCHANGED <<lastFileId, instanceIds, newProcessId, instanceId, instanceIndex,
                 directories>>

\* ::fork() succeeded: the child starts with a copy of the parent's memory.
ForkSucceeded(p, c) ==
  /\ pc[p] = "forking"
  /\ pc[c] = "unborn"
  /\ pc' = [pc EXCEPT ![p] = "running", ![c] = "starting"]
  /\ newProcessId' = [newProcessId EXCEPT ![c] = newProcessId[p]]
  /\ instanceId' = [instanceId EXCEPT ![c] = instanceId[p]]
  /\ instanceIndex' = [instanceIndex EXCEPT ![c] = instanceIndex[p]]
  /\ UNCHANGED <<currentInstanceCount, lastFileId, instanceIds, directories>>

\* Mutant of FirstFree: the search ends before the last slot.
FirstFreeMissesLast ==
  IF 0 .. MaxInstances - 2 \subseteq Occupied THEN MaxInstances
  ELSE CHOOSE i \in 0 .. MaxInstances - 2 :
         i \notin Occupied /\ \A j \in 0 .. i - 1 : j \in Occupied

\* The index at which the search for a free slot stops: MaxInstances if none is free.
FirstFree ==
  CHOOSE i \in 0 .. MaxInstances :
    /\ i \in Usable => i \notin Occupied
    /\ \A j \in 0 .. i - 1 : j \in Occupied

\* Mutant of ClaimSlot: m_currentInstanceIndex keeps the parent's value.
ClaimSlotKeepsIndex(p) ==
  /\ pc[p] = "starting"
  /\ Check(p, FirstFree < MaxInstances, "claimed")
  /\ instanceIds' = [i \in Slots |-> IF i = FirstFree THEN newProcessId[p] ELSE instanceIds[i]]
  /\ instanceId' = [instanceId EXCEPT ![p] = newProcessId[p]]
  /\ UNCHANGED <<currentInstanceCount, lastFileId, newProcessId, instanceIndex, directories>>

\* The child takes the first free slot.
ClaimSlot(p) ==
  /\ pc[p] = "starting"
  /\ Check(p, FirstFree < MaxInstances, "claimed")
  /\ instanceIds' = [i \in Slots |-> IF i = FirstFree THEN newProcessId[p] ELSE instanceIds[i]]
  /\ instanceIndex' = [instanceIndex EXCEPT ![p] = IF FirstFree < MaxInstances THEN FirstFree ELSE @]
  /\ instanceId' = [instanceId EXCEPT ![p] = newProcessId[p]]
  /\ UNCHANGED <<currentInstanceCount, lastFileId, newProcessId, directories>>

\* initOutputDirectory of a child: the directory is named after the instance id.
InitOutputDirectory(p) ==
  /\ pc[p] = "claimed"
  /\ Check(p, instanceId[p] \notin directories, "running")
  /\ directories' = directories \cup {instanceId[p]}
  /\ UNCHANGED <<currentInstanceCount, lastFileId, instanceIds, newProcessId, instanceId,
                 instanceIndex>>

\* S2E::~S2E
Terminate(p) ==
  /\ pc[p] = "running"
  /\ Check(p, instanceIds[instanceIndex[p]] = instanceId[p] /\ currentInstanceCount > 0, "dead")
  /\ instanceIds' = [instanceIds EXCEPT ![instanceIndex[p]] = NoInstance]
  /\ currentInstanceCount' = currentInstanceCount - 1
  /\ UNCHANGED <<lastFileId, newProcessId, instanceId, instanceIndex, directories>>

Next ==
  \E p \in Procs :
    \/ ForkReserve(p)
    \/ ForkFailed(p)
    \/ \E c \in Procs : ForkSucceeded(p, c)
    \/ ClaimSlot(p)
    \/ InitOutputDirectory(p)
    \/ Terminate(p)

Spec == PoolInit /\ [][Next]_poolVars

-------------------------------------------------------------------------------
\* The variables have the types of the fields of S2EShared and S2E, and the slot
\* S2E::fork finds for a child is one of the first m_maxInstances.
PoolTypeOK ==
  /\ currentInstanceCount \in Nat
  /\ lastFileId \in Nat
  /\ instanceIds \in [Slots -> Nat \cup {NoInstance}]
  /\ pc \in [Procs -> PC]
  /\ newProcessId \in [Procs -> Nat]
  /\ instanceId \in [Procs -> Nat]
  /\ instanceIndex \in [Procs -> Usable]
  /\ directories \subseteq Nat

\* None of the assertions in S2E::fork, S2E::~S2E and initOutputDirectory can
\* fail: in particular a child always finds a free slot and a fresh directory,
\* whatever other processes do between the parent's reservation and the claim.
NoAssertionFails == \A p \in Procs : pc[p] # "aborted"

\* currentInstanceCount counts the slots in use and the instances that are being
\* forked, also after failed forks, and never exceeds m_maxInstances.
CountIsExact ==
  /\ currentInstanceCount = Cardinality(Occupied) + Cardinality(Pending)
  /\ currentInstanceCount <= MaxInstances

\* Every running instance has a slot of its own that holds its id, and every slot
\* in use belongs to a live instance: none is leaked and none is shared.
SlotsMatchInstances ==
  /\ \A p \in Registered : instanceIds[instanceIndex[p]] = instanceId[p]
  /\ \A p, q \in Registered : p # q => instanceIndex[p] # instanceIndex[q] /\ instanceId[p] # instanceId[q]
  /\ \A i \in Occupied : \E p \in Registered : instanceIndex[p] = i

===============================================================================
