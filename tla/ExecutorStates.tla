---------------------------- MODULE ExecutorStates ----------------------------
(***************************************************************************)
(* The execution states of one S2E process: how a state is created by a    *)
(* fork, filed with the searcher, scheduled, yielded, suspended, terminated *)
(* and freed (klee/lib/Core/Executor.cpp, klee/lib/Core/Searcher.cpp,      *)
(* libs2ecore/src/S2EExecutor.cpp, libcpu/src/cpu-exec.c).                 *)
(*                                                                         *)
(* One thread runs all of this, but in pieces that are far apart: code     *)
(* called from the guest (forks, plugins), the unwinding of a              *)
(* CpuExitException, and the timers that fire between two calls of         *)
(* cpu_exec.  pc says in which piece the thread is.                        *)
(*                                                                         *)
(* A StateSet is an std::unordered_set of pointers: every place that       *)
(* depends on its order is a choice here.                                  *)
(***************************************************************************)
EXTENDS Integers, FiniteSets

CONSTANTS
  StateIds,  \* bound: the states that can ever be created
  First,     \* the initial state
  Null

ASSUME ExecutorStatesAssumption ==
  /\ First \in StateIds
  /\ Null \notin StateIds
  /\ IsFiniteSet(StateIds)

VARIABLES
  states,          \* Executor::states
  addedStates,     \* Executor::addedStates
  removedStates,   \* Executor::removedStates
  deletedStates,   \* S2EExecutor::m_deletedStates
  searcher,        \* the states the searcher holds
  currentState,    \* DFSSearcher::currentState
  useRandomSearch, \* -use-random-search: RandomSearcher instead of DFSSearcher
  current,         \* g_s2e_state
  zombie,          \* states with m_zombie
  yielded,         \* states with m_yielded
  forbidden,       \* states with m_isStateSwitchForbidden
  suspended,       \* history: states a plugin suspended and did not resume
  created,         \* history: states that were ever created
  freed,           \* history: states whose memory was released
  pc

queues == <<states, addedStates, removedStates, deletedStates>>
search == <<searcher, currentState>>
flags == <<zombie, yielded, forbidden>>
vars == <<queues, search, useRandomSearch, current, flags, suspended, created, freed, pc>>

\* main     between two calls of cpu_exec; timers may fire
\* exec     inside cpu_exec, running guest code of the current state
\* unwind   a CpuExitException or a longjmp is on its way to cpu_exec
\* update   selectNextState was called
\* choose   selectNextState, after updateStates
\* exited   all states were terminated
\* aborted  an assertion or a pabort failed
PC == {"main", "exec", "unwind", "update", "choose", "exited", "aborted"}

Goto(ok, next) == pc' = IF ok THEN next ELSE "aborted"

Runnable(s) == s \notin zombie /\ s \notin yielded

-------------------------------------------------------------------------------
\* Mutant of SearcherUpdate: DFSSearcher sticks to a state that is removed.
SearcherUpdateStaysSticky(added, removed) ==
  /\ searcher' = (searcher \cup added) \ removed
  /\ UNCHANGED currentState

\* DFSSearcher::update and RandomSearcher::update.  With an empty vector before
\* and after the update, states[0] reads beyond the end: any value.
SearcherUpdate(added, removed) ==
  /\ searcher' = (searcher \cup added) \ removed
  /\ \/ /\ useRandomSearch
        /\ UNCHANGED currentState
     \/ /\ ~useRandomSearch
        /\ searcher # {}
        /\ currentState' = IF currentState \in removed THEN Null ELSE currentState
     \/ /\ ~useRandomSearch
        /\ searcher = {}
        /\ currentState' \in IF searcher' = {} THEN created \cup {Null} ELSE searcher'

\* The searcher aborts when it does not hold a state that is removed.
SearcherAccepts(added, removed) == removed \subseteq searcher \cup added

\* Mutant of UpdateStates: removedStates is not cleared.
UpdateStatesKeepsRemoved(next) ==
  /\ SearcherUpdate(addedStates, removedStates)
  /\ states' = (states \cup addedStates) \ removedStates
  /\ deletedStates' = deletedStates \cup removedStates
  /\ addedStates' = {}
  /\ UNCHANGED removedStates
  /\ Goto(/\ SearcherAccepts(addedStates, removedStates)
          /\ removedStates \subseteq states \cup addedStates
          /\ removedStates \cap deletedStates = {},
          next)

\* Executor::updateStates, with the deferred deleteState of S2EExecutor.  The
\* last condition is not an assertion of the code: a state that is entered twice
\* in m_deletedStates is freed twice.
UpdateStates(next) ==
  /\ SearcherUpdate(addedStates, removedStates)
  /\ states' = (states \cup addedStates) \ removedStates
  /\ deletedStates' = deletedStates \cup removedStates
  /\ addedStates' = {}
  /\ removedStates' = {}
  /\ Goto(/\ SearcherAccepts(addedStates, removedStates)
          /\ removedStates \subseteq states \cup addedStates
          /\ removedStates \cap deletedStates = {},
          next)

\* Mutant of TerminateState: a state the searcher never saw is dropped and not deleted.
TerminateStateLeaksNew(s) ==
  /\ IF s \in addedStates
     THEN addedStates' = addedStates \ {s} /\ UNCHANGED removedStates
     ELSE removedStates' = removedStates \cup {s} /\ UNCHANGED addedStates
  /\ zombie' = zombie \cup {s}
  /\ UNCHANGED <<states, deletedStates, yielded, forbidden>>

\* Executor::terminateState: a state the searcher never saw is deleted at once.
TerminateState(s) ==
  /\ IF s \in addedStates
     THEN /\ addedStates' = addedStates \ {s}
          /\ deletedStates' = deletedStates \cup {s}
          /\ UNCHANGED removedStates
     ELSE /\ removedStates' = removedStates \cup {s}
          /\ UNCHANGED <<addedStates, deletedStates>>
  /\ zombie' = zombie \cup {s}
  /\ UNCHANGED <<states, yielded, forbidden>>

-------------------------------------------------------------------------------
\* initializeExecution: the first state is filed and becomes current.
Init ==
  /\ states = {First}
  /\ addedStates = {}
  /\ removedStates = {}
  /\ deletedStates = {}
  /\ searcher = {First}
  /\ useRandomSearch \in BOOLEAN
  /\ currentState = IF useRandomSearch THEN Null ELSE First
  /\ current = First
  /\ zombie = {}
  /\ yielded = {}
  /\ forbidden = {}
  /\ suspended = {}
  /\ created = {First}
  /\ freed = {}
  /\ pc = "main"

\* cpu_exec is called; it returns at once if the state cannot run.
EnterCpu ==
  /\ pc = "main"
  /\ Runnable(current)
  /\ pc' = "exec"
  /\ UNCHANGED <<queues, search, useRandomSearch, current, flags, suspended, created, freed>>

\* cpu_exec returns between two instructions: every fork has been filed.
LeaveCpu ==
  /\ pc = "exec"
  /\ addedStates = {}
  /\ pc' = "main"
  /\ UNCHANGED <<queues, search, useRandomSearch, current, flags, suspended, created, freed>>

\* Mutant of Fork: the child is not entered in addedStates.
ForkNotAdded(t) ==
  /\ pc = "exec"
  /\ t \notin created
  /\ created' = created \cup {t}
  /\ forbidden' = IF current \in forbidden THEN forbidden \cup {t} ELSE forbidden
  /\ UNCHANGED <<queues, search, useRandomSearch, current, zombie, yielded, suspended, freed,
                 pc>>

\* Executor::fork: the child is a copy of the current state.
Fork(t) ==
  /\ pc = "exec"
  /\ t \notin created
  /\ created' = created \cup {t}
  /\ addedStates' = addedStates \cup {t}
  /\ forbidden' = IF current \in forbidden THEN forbidden \cup {t} ELSE forbidden
  /\ UNCHANGED <<states, removedStates, deletedStates, search, useRandomSearch, current,
                 zombie, yielded, suspended, freed, pc>>

\* executeInstructions: the states are updated after each LLVM instruction.
InstructionDone ==
  /\ pc = "exec"
  /\ UpdateStates("exec")
  /\ UNCHANGED <<useRandomSearch, current, flags, suspended, created, freed>>

\* s2e_begin_atomic and s2e_end_atomic.
BeginAtomic ==
  /\ pc = "exec"
  /\ forbidden' = forbidden \cup {current}
  /\ UNCHANGED <<queues, search, useRandomSearch, current, zombie, yielded, suspended,
                 created, freed, pc>>

EndAtomic ==
  /\ pc = "exec"
  /\ forbidden' = forbidden \ {current}
  /\ UNCHANGED <<queues, search, useRandomSearch, current, zombie, yielded, suspended,
                 created, freed, pc>>

\* S2EExecutionState::yield.
Yield ==
  /\ pc = "exec"
  /\ yielded' = yielded \cup {current}
  /\ pc' = "unwind"
  /\ UNCHANGED <<queues, search, useRandomSearch, current, zombie, forbidden, suspended,
                 created, freed>>

\* S2EExecutor::terminateState from code the guest called; killing the current
\* state throws.
Terminate(s) ==
  /\ pc = "exec"
  /\ s \in states \cup addedStates
  /\ TerminateState(s)
  /\ pc' = IF s = current THEN "unwind" ELSE "exec"
  /\ UNCHANGED <<search, useRandomSearch, current, suspended, created, freed>>

\* ResourceMonitor::dropStates from a timer: the exception is swallowed.
DropState(s) ==
  /\ pc = "main"
  /\ s \in states
  /\ TerminateState(s)
  /\ UNCHANGED <<search, useRandomSearch, current, suspended, created, freed, pc>>

\* The exception handlers on the way to cpu_exec update the states: none, one
\* or two of them, according to what was running.
UnwindUpdate ==
  /\ pc = "unwind"
  /\ UpdateStates("unwind")
  /\ UNCHANGED <<useRandomSearch, current, flags, suspended, created, freed>>

\* The longjmp arrives in cpu_exec.
UnwindDone ==
  /\ pc = "unwind"
  /\ addedStates = {}
  /\ pc' = IF Runnable(current) THEN "exec" ELSE "main"
  /\ UNCHANGED <<queues, search, useRandomSearch, current, flags, suspended, created, freed>>

\* S2EExecutor::suspendState of a state that is alive and not running.
SuspendState(s) ==
  /\ pc = "exec"
  /\ s \in states \ (removedStates \cup {current})
  /\ SearcherUpdate({}, {s})
  /\ states' = states \ {s}
  /\ suspended' = suspended \cup {s}
  /\ Goto(SearcherAccepts({}, {s}), pc)
  /\ UNCHANGED <<addedStates, removedStates, deletedStates, useRandomSearch, current, flags,
                 created, freed>>

\* S2EExecutor::resumeState.
ResumeState(s) ==
  /\ pc = "exec"
  /\ s \in suspended
  /\ s \notin states
  /\ states' = states \cup {s}
  /\ SearcherUpdate({s}, {})
  /\ suspended' = suspended \ {s}
  /\ UNCHANGED <<addedStates, removedStates, deletedStates, useRandomSearch, current, flags,
                 created, freed, pc>>

-------------------------------------------------------------------------------
\* doLoadBalancing, as this process sees it: the live states of the other
\* partition are terminated, the current one possibly among them.
LoadBalance(killed) ==
  /\ Cardinality(states) >= 2
  /\ Cardinality(states \ zombie) >= 2
  /\ killed # states \ zombie
  /\ removedStates' = removedStates \cup killed
  /\ zombie' = zombie \cup killed

\* stateSwitchTimerCallback, up to the call of selectNextState.
StateSwitchTimer ==
  /\ pc = "main"
  /\ pc' = "update"
  /\ \/ \E killed \in SUBSET (states \ zombie) : LoadBalance(killed)
     \/ UNCHANGED <<removedStates, zombie>>
  /\ UNCHANGED <<states, addedStates, deletedStates, search, useRandomSearch, current,
                 yielded, forbidden, suspended, created, freed>>

\* selectNextState: updateStates.
SelectUpdate ==
  /\ pc = "update"
  /\ UpdateStates("choose")
  /\ UNCHANGED <<useRandomSearch, current, flags, suspended, created, freed>>

\* Mutant of SwitchForbidden: the test of m_zombie is missing.
SwitchForbiddenEvenToZombies == current \in forbidden

\* selectNextState: the current state keeps the processor.
SwitchForbidden == current \in forbidden /\ current \notin zombie

KeepState ==
  /\ pc = "choose"
  /\ SwitchForbidden
  /\ pc' = "main"
  /\ UNCHANGED <<queues, search, useRandomSearch, current, flags, suspended, created, freed>>

\* Mutant of AllTerminated: the current state is freed as well.
AllTerminatedFreesCurrent ==
  /\ pc = "choose"
  /\ ~SwitchForbidden
  /\ searcher = {}
  /\ freed' = freed \cup deletedStates
  /\ deletedStates' = {}
  /\ pc' = "exited"
  /\ UNCHANGED <<states, addedStates, removedStates, search, useRandomSearch, current,
                 flags, suspended, created>>

\* selectSearcherState: nothing is left; all deleted states but the current one
\* are freed and the process exits.
AllTerminated ==
  /\ pc = "choose"
  /\ ~SwitchForbidden
  /\ searcher = {}
  /\ freed' = freed \cup (deletedStates \ {current})
  /\ deletedStates' = {}
  /\ pc' = "exited"
  /\ UNCHANGED <<states, addedStates, removedStates, search, useRandomSearch, current,
                 flags, suspended, created>>

\* The states selectState may return.
Selectable == IF useRandomSearch \/ currentState = Null THEN searcher ELSE {currentState}

\* Mutant of SwitchState: the yield flag of the chosen state is not cleared.
SwitchStateKeepsYield(s) ==
  /\ pc = "choose"
  /\ ~SwitchForbidden
  /\ searcher # {}
  /\ s \in Selectable
  /\ currentState' = IF useRandomSearch THEN currentState ELSE s
  /\ current' = s
  /\ freed' = freed \cup deletedStates
  /\ deletedStates' = {}
  /\ Goto(s \in states /\ s \notin zombie /\ s \notin deletedStates, "main")
  /\ UNCHANGED <<states, addedStates, removedStates, searcher, useRandomSearch, flags,
                 suspended, created>>

\* selectNextState: switch to the state the searcher chose, then free the
\* deleted states, which may include the one that was running.
SwitchState(s) ==
  /\ pc = "choose"
  /\ ~SwitchForbidden
  /\ searcher # {}
  /\ s \in Selectable
  /\ currentState' = IF useRandomSearch THEN currentState ELSE s
  /\ yielded' = yielded \ {s}
  /\ current' = s
  /\ freed' = freed \cup deletedStates
  /\ deletedStates' = {}
  /\ Goto(s \in states /\ s \notin zombie /\ s \notin deletedStates, "main")
  /\ UNCHANGED <<states, addedStates, removedStates, searcher, useRandomSearch, zombie,
                 forbidden, suspended, created>>

Next ==
  \/ EnterCpu
  \/ LeaveCpu
  \/ \E s \in StateIds : Fork(s)
  \/ InstructionDone
  \/ BeginAtomic
  \/ EndAtomic
  \/ Yield
  \/ \E s \in StateIds : Terminate(s)
  \/ \E s \in StateIds : DropState(s)
  \/ UnwindUpdate
  \/ UnwindDone
  \/ \E s \in StateIds : SuspendState(s)
  \/ \E s \in StateIds : ResumeState(s)
  \/ StateSwitchTimer
  \/ SelectUpdate
  \/ KeepState
  \/ AllTerminated
  \/ \E s \in StateIds : SwitchState(s)

Spec == Init /\ [][Next]_vars

\* The timer is armed again by every callback, and a callback and the
\* unwinding of an exception run to their end.  Nothing is assumed of the guest.
Fairness ==
  /\ WF_vars(StateSwitchTimer)
  /\ WF_vars(SelectUpdate)
  /\ WF_vars(KeepState \/ AllTerminated \/ \E s \in StateIds : SwitchState(s))
  /\ WF_vars(UnwindUpdate)
  /\ WF_vars(UnwindDone)

FairSpec == Spec /\ Fairness

-------------------------------------------------------------------------------
\* The variables have the types of the fields of Executor, Searcher and
\* S2EExecutionState; there is always a current state (g_s2e_state).
TypeOK ==
  /\ states \subseteq StateIds
  /\ addedStates \subseteq StateIds
  /\ removedStates \subseteq StateIds
  /\ deletedStates \subseteq StateIds
  /\ searcher \subseteq StateIds
  /\ currentState \in StateIds \cup {Null}
  /\ useRandomSearch \in BOOLEAN
  /\ current \in StateIds
  /\ zombie \subseteq StateIds
  /\ yielded \subseteq StateIds
  /\ forbidden \subseteq StateIds
  /\ suspended \subseteq StateIds
  /\ created \subseteq StateIds
  /\ freed \subseteq StateIds
  /\ pc \in PC

\* No assertion of updateStates, suspendState and selectNextState fails and no
\* searcher aborts: a state is never removed twice, the searcher never returns
\* a state that is unknown, terminated or about to be freed.
NoAssertionFails == pc # "aborted"

\* Nothing the engine can still reach was freed: deletion is deferred until the
\* thread has switched away from the terminated state (selectNextState).
NoUseAfterFree ==
  freed \cap (states \cup addedStates \cup removedStates \cup deletedStates
                \cup searcher \cup suspended \cup {current}) = {}

\* No path is lost: a state that was forked and not terminated is scheduled by
\* the searcher, waits to be filed, or was suspended by a plugin.
LivePathsAreKept ==
  \A s \in created \ zombie : s \in states \cap searcher \/ s \in addedStates \cup suspended

\* The searcher and the engine agree on the set of states, although terminated
\* and new states are told to them in batches, and the state a DFS searcher
\* sticks to is one of them (DFSSearcher::update, suspendState, resumeState).
SearcherAgrees ==
  /\ searcher = states
  /\ searcher # {} => currentState \in searcher \cup {Null}

\* Once the engine has switched to another state, no terminated state is left in
\* memory: whether it was killed before or after it was filed with the searcher, by
\* itself, by another state, by a timer or by load balancing, it has come to
\* m_deletedStates by then (terminateState, updateStates, selectNextState).
SwitchFreesTerminated == [][current' # current => zombie' \subseteq freed']_vars

\* A terminated state does not keep the processor: the engine switches away from
\* it or exits, even inside an atomic section.
TerminatedIsReplaced == (current \in zombie) ~> (current \notin zombie \/ pc = "exited")

\* A state that yields outside of an atomic section is given back to the
\* searcher, which lets it or another state run.  Inside of one selectNextState
\* returns before it clears the flag, and the state neither runs nor leaves.
YieldIsServed == (current \in yielded \ forbidden) ~> (current \notin yielded \/ pc = "exited")
===============================================================================
