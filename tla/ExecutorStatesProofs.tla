------------------------- MODULE ExecutorStatesProofs -------------------------
(***************************************************************************)
(* For any number of states: no assertion of the engine fails, nothing that *)
(* was freed can be reached, no live path is lost, the searcher agrees     *)
(* with the engine and a switch frees what was terminated.                 *)
(***************************************************************************)
EXTENDS ExecutorStates, TLAPS

\* A created state is in at most one of these sets.
Disjoint ==
  /\ states \cap addedStates = {}
  /\ states \cap deletedStates = {}
  /\ states \cap suspended = {}
  /\ states \cap freed = {}
  /\ addedStates \cap deletedStates = {}
  /\ addedStates \cap suspended = {}
  /\ addedStates \cap freed = {}
  /\ deletedStates \cap suspended = {}
  /\ deletedStates \cap freed = {}
  /\ suspended \cap freed = {}

Known ==
  /\ states \subseteq created
  /\ addedStates \subseteq created
  /\ deletedStates \subseteq created
  /\ suspended \subseteq created
  /\ freed \subseteq created
  /\ zombie \subseteq created
  /\ current \in created \ freed

\* The terminated states that updateStates has not seen are the ones in
\* removedStates; all others were deleted or freed.
Terminated ==
  /\ removedStates = states \cap zombie
  /\ addedStates \cap zombie = {}
  /\ suspended \cap zombie = {}
  /\ created \ zombie \subseteq states \cup addedStates \cup suspended
  /\ pc # "exited" => zombie \subseteq states \cup deletedStates \cup freed

\* selectNextState chooses right after it has updated the states.
Filed == pc = "choose" => addedStates = {} /\ removedStates = {}

IInv ==
  /\ TypeOK
  /\ NoAssertionFails
  /\ SearcherAgrees
  /\ useRandomSearch => currentState = Null
  /\ Disjoint
  /\ Known
  /\ Terminated
  /\ Filed

\* What the searcher does with a batch whose removed states it holds or gets.
LEMMA SearcherStep ==
  ASSUME NEW added \in SUBSET created, NEW removed, TypeOK, SearcherAgrees,
         useRandomSearch => currentState = Null, SearcherUpdate(added, removed),
         useRandomSearch' = useRandomSearch
  PROVE  /\ searcher' = (searcher \cup added) \ removed
         /\ currentState' \in StateIds \cup {Null}
         /\ searcher' # {} => currentState' \in searcher' \cup {Null}
         /\ useRandomSearch' => currentState' = Null
<1>1. searcher' = (searcher \cup added) \ removed
  BY DEF SearcherUpdate
<1>2. CASE useRandomSearch
  BY <1>1, <1>2 DEF SearcherUpdate
<1>3. CASE ~useRandomSearch /\ searcher # {}
  <2>1. currentState' = IF currentState \in removed THEN Null ELSE currentState
    BY <1>3 DEF SearcherUpdate
  <2>2. currentState \in searcher \cup {Null}
    BY <1>3 DEF SearcherAgrees
  <2> QED
    BY <1>1, <1>3, <2>1, <2>2 DEF TypeOK
<1>4. CASE ~useRandomSearch /\ searcher = {}
  <2>1. currentState' \in IF searcher' = {} THEN created \cup {Null} ELSE searcher'
    BY <1>4 DEF SearcherUpdate
  <2> QED
    BY <1>1, <1>4, <2>1 DEF TypeOK
<1> QED
  BY <1>2, <1>3, <1>4

\* updateStates never fails: removedStates only holds states that are filed.
LEMMA UpdateStatesStep ==
  ASSUME NEW next \in PC \ {"aborted"}, IInv, pc # "exited", UpdateStates(next),
         UNCHANGED <<useRandomSearch, current, flags, suspended, created, freed>>
  PROVE  IInv'
<1> USE DEF IInv
<1>1. /\ searcher' = (searcher \cup addedStates) \ removedStates
      /\ currentState' \in StateIds \cup {Null}
      /\ searcher' # {} => currentState' \in searcher' \cup {Null}
      /\ useRandomSearch' => currentState' = Null
  BY SearcherStep DEF UpdateStates, Known
<1>2. /\ states' = (states \cup addedStates) \ removedStates
      /\ deletedStates' = deletedStates \cup removedStates
      /\ addedStates' = {}
      /\ removedStates' = {}
  BY DEF UpdateStates
<1>3. pc' = next
  <2>1. SearcherAccepts(addedStates, removedStates)
    BY DEF SearcherAccepts, Terminated, SearcherAgrees
  <2>2. removedStates \subseteq states \cup addedStates
    BY DEF Terminated
  <2>3. removedStates \cap deletedStates = {}
    BY DEF Terminated, Disjoint
  <2> QED
    BY <2>1, <2>2, <2>3 DEF UpdateStates, Goto
<1>4. TypeOK'
  BY <1>1, <1>2, <1>3 DEF TypeOK, flags
<1>5. NoAssertionFails'
  BY <1>3 DEF NoAssertionFails
<1>6. SearcherAgrees'
  BY <1>1, <1>2 DEF SearcherAgrees
<1>7. Disjoint'
  BY <1>2 DEF Disjoint, Terminated
<1>8. Known'
  BY <1>2 DEF Known, Terminated, flags
<1>9. Terminated'
  BY <1>2 DEF Terminated, flags
<1>10. Filed'
  BY <1>2 DEF Filed
<1> QED
  BY <1>1, <1>4, <1>5, <1>6, <1>7, <1>8, <1>9, <1>10

\* terminateState of a state that is filed or still to be filed.
LEMMA TerminateStep ==
  ASSUME NEW s \in states \cup addedStates, IInv, TerminateState(s),
         UNCHANGED <<search, useRandomSearch, current, suspended, created, freed>>,
         pc \in {"main", "exec"}, pc' \in {"main", "exec", "unwind"}
  PROVE  IInv'
<1> USE DEF IInv, search
<1>0. UNCHANGED <<states, yielded, forbidden>> /\ zombie' = zombie \cup {s} /\ s \in StateIds
  BY DEF TerminateState, TypeOK
<1>1. CASE s \in addedStates
  <2>1. /\ addedStates' = addedStates \ {s}
        /\ deletedStates' = deletedStates \cup {s}
        /\ removedStates' = removedStates
    BY <1>1 DEF TerminateState
  <2>2. TypeOK' /\ NoAssertionFails' /\ SearcherAgrees' /\ Filed'
    BY <1>0, <2>1 DEF TypeOK, PC, NoAssertionFails, SearcherAgrees, Filed
  <2>3. Disjoint' /\ Known'
    BY <1>0, <1>1, <2>1 DEF Disjoint, Known
  <2>4. Terminated'
    BY <1>0, <1>1, <2>1 DEF Terminated, Disjoint
  <2> QED
    BY <2>2, <2>3, <2>4
<1>2. CASE s \notin addedStates
  <2>1. /\ removedStates' = removedStates \cup {s}
        /\ UNCHANGED <<addedStates, deletedStates>>
    BY <1>2 DEF TerminateState
  <2>2. TypeOK' /\ NoAssertionFails' /\ SearcherAgrees' /\ Filed'
    BY <1>0, <2>1 DEF TypeOK, PC, NoAssertionFails, SearcherAgrees, Filed
  <2>3. Disjoint' /\ Known'
    BY <1>0, <2>1 DEF Disjoint, Known
  <2>4. Terminated'
    BY <1>0, <1>2, <2>1 DEF Terminated, Disjoint
  <2> QED
    BY <2>2, <2>3, <2>4
<1> QED
  BY <1>1, <1>2

\* The steps that only move the thread.
LEMMA MoveStep ==
  ASSUME IInv, pc # "exited",
         UNCHANGED <<queues, search, useRandomSearch, current, flags, suspended, created, freed>>,
         pc' \in PC \ {"aborted", "choose"}
  PROVE  IInv'
  BY DEF IInv, queues, search, flags, TypeOK, NoAssertionFails, SearcherAgrees, Disjoint, Known,
         Terminated, Filed

LEMMA ForkStep ==
  ASSUME NEW t \in StateIds, IInv, Fork(t)
  PROVE  IInv'
<1> USE DEF IInv, Fork, search
<1>1. TypeOK' /\ NoAssertionFails' /\ SearcherAgrees' /\ Filed'
  BY DEF TypeOK, NoAssertionFails, SearcherAgrees, Filed
<1>2. Disjoint' /\ Known'
  BY DEF Disjoint, Known
<1>3. Terminated'
  BY DEF Terminated, Known
<1> QED
  BY <1>1, <1>2, <1>3

LEMMA SuspendStep ==
  ASSUME NEW s \in StateIds, IInv, SuspendState(s)
  PROVE  IInv'
<1> USE DEF IInv
<1>0. /\ pc = "exec"
      /\ s \in states \ (removedStates \cup {current})
      /\ SearcherUpdate({}, {s})
      /\ states' = states \ {s}
      /\ suspended' = suspended \cup {s}
      /\ UNCHANGED <<addedStates, removedStates, deletedStates, useRandomSearch, current,
                     zombie, yielded, forbidden, created, freed>>
  BY DEF SuspendState, flags
<1>1. /\ searcher' = (searcher \cup {}) \ {s}
      /\ currentState' \in StateIds \cup {Null}
      /\ searcher' # {} => currentState' \in searcher' \cup {Null}
      /\ useRandomSearch' => currentState' = Null
  BY <1>0, SearcherStep
<1>2. pc' = "exec"
  BY <1>0 DEF SuspendState, Goto, SearcherAccepts, SearcherAgrees
<1>3. TypeOK' /\ NoAssertionFails' /\ SearcherAgrees' /\ Filed'
  BY <1>0, <1>1, <1>2 DEF TypeOK, PC, NoAssertionFails, SearcherAgrees, Filed
<1>4. Disjoint' /\ Known'
  BY <1>0 DEF Disjoint, Known
<1>5. Terminated'
  BY <1>0 DEF Terminated
<1> QED
  BY <1>1, <1>3, <1>4, <1>5

LEMMA ResumeStep ==
  ASSUME NEW s \in StateIds, IInv, ResumeState(s)
  PROVE  IInv'
<1> USE DEF IInv
<1>0. /\ pc = "exec"
      /\ s \in suspended
      /\ SearcherUpdate({s}, {})
      /\ states' = states \cup {s}
      /\ suspended' = suspended \ {s}
      /\ UNCHANGED <<addedStates, removedStates, deletedStates, useRandomSearch, current,
                     zombie, yielded, forbidden, created, freed, pc>>
  BY DEF ResumeState, flags
<1>1. /\ searcher' = (searcher \cup {s}) \ {}
      /\ currentState' \in StateIds \cup {Null}
      /\ searcher' # {} => currentState' \in searcher' \cup {Null}
      /\ useRandomSearch' => currentState' = Null
  BY <1>0, SearcherStep, Zenon DEF Known
<1>3. TypeOK' /\ NoAssertionFails' /\ SearcherAgrees' /\ Filed'
  BY <1>0, <1>1 DEF TypeOK, PC, NoAssertionFails, SearcherAgrees, Filed
<1>4. Disjoint' /\ Known'
  BY <1>0 DEF Disjoint, Known
<1>5. Terminated'
  BY <1>0 DEF Terminated
<1> QED
  BY <1>1, <1>3, <1>4, <1>5

LEMMA StateSwitchTimerStep ==
  ASSUME IInv, StateSwitchTimer
  PROVE  IInv'
<1> USE DEF IInv, search
<1>1. PICK killed \in SUBSET (states \ zombie) :
        removedStates' = removedStates \cup killed /\ zombie' = zombie \cup killed
  <2>1. CASE \E killed \in SUBSET (states \ zombie) : LoadBalance(killed)
    BY <2>1 DEF LoadBalance
  <2>2. CASE UNCHANGED <<removedStates, zombie>>
    <3>1. {} \in SUBSET (states \ zombie)
      OBVIOUS
    <3> QED
      BY <2>2, <3>1, Zenon
  <2> QED
    BY <2>1, <2>2 DEF StateSwitchTimer
<1>2. /\ pc = "main" /\ pc' = "update"
      /\ UNCHANGED <<states, addedStates, deletedStates, searcher, currentState, useRandomSearch,
                     current, yielded, forbidden, suspended, created, freed>>
  BY DEF StateSwitchTimer
<1>3. TypeOK' /\ NoAssertionFails' /\ SearcherAgrees' /\ Filed'
  BY <1>1, <1>2 DEF TypeOK, PC, NoAssertionFails, SearcherAgrees, Filed
<1>4. Disjoint' /\ Known'
  BY <1>1, <1>2 DEF Disjoint, Known
<1>5. Terminated'
  BY <1>1, <1>2 DEF Terminated, Disjoint
<1> QED
  BY <1>2, <1>3, <1>4, <1>5

LEMMA AllTerminatedStep ==
  ASSUME IInv, AllTerminated
  PROVE  IInv'
<1> USE DEF IInv, AllTerminated, search, flags
<1>1. TypeOK' /\ NoAssertionFails' /\ SearcherAgrees' /\ Filed'
  BY Zenon DEF TypeOK, PC, NoAssertionFails, SearcherAgrees, Filed
<1>2. Disjoint' /\ Known'
  BY DEF Disjoint, Known
<1>3. Terminated'
  BY DEF Terminated
<1> QED
  BY <1>1, <1>2, <1>3

\* The chosen state is filed, alive and not about to be freed.
LEMMA SwitchStateStep ==
  ASSUME NEW s \in StateIds, IInv, SwitchState(s)
  PROVE  IInv'
<1> USE DEF IInv
<1>1. s \in states
  <2>1. searcher # {} /\ s \in Selectable /\ s # Null
    BY ExecutorStatesAssumption DEF SwitchState
  <2> QED
    BY <2>1 DEF Selectable, SearcherAgrees
<1>2. s \notin zombie /\ s \notin deletedStates /\ s \notin freed
  BY <1>1 DEF SwitchState, Filed, Terminated, Disjoint
<1>3. pc' = "main"
  BY <1>1, <1>2 DEF SwitchState, Goto
<1>4. TypeOK' /\ NoAssertionFails' /\ SearcherAgrees' /\ Filed'
  BY <1>1, <1>3 DEF SwitchState, TypeOK, PC, NoAssertionFails, SearcherAgrees, Filed
<1>5. Disjoint' /\ Known'
  BY <1>1, <1>2 DEF SwitchState, Disjoint, Known
<1>6. Terminated'
  BY DEF SwitchState, Terminated
<1>7. useRandomSearch' => currentState' = Null
  BY DEF SwitchState
<1> QED
  BY <1>4, <1>5, <1>6, <1>7

LEMMA FlagStep ==
  ASSUME IInv, BeginAtomic \/ EndAtomic \/ Yield
  PROVE  IInv'
<1> USE DEF IInv, BeginAtomic, EndAtomic, Yield, queues, search
<1>1. TypeOK' /\ NoAssertionFails' /\ SearcherAgrees' /\ Filed'
  BY DEF TypeOK, PC, NoAssertionFails, SearcherAgrees, Filed
<1>2. Disjoint' /\ Known' /\ Terminated'
  BY DEF Disjoint, Known, Terminated
<1> QED
  BY <1>1, <1>2

-------------------------------------------------------------------------------
LEMMA InitIInv == Init => IInv
<1> SUFFICES ASSUME Init PROVE IInv
  OBVIOUS
<1> USE DEF Init
<1>1. TypeOK /\ NoAssertionFails /\ SearcherAgrees /\ Filed
  BY ExecutorStatesAssumption DEF TypeOK, PC, NoAssertionFails, SearcherAgrees, Filed
<1>2. Disjoint /\ Known /\ Terminated
  BY DEF Disjoint, Known, Terminated
<1> QED
  BY <1>1, <1>2 DEF IInv

LEMMA NextIInv == IInv /\ [Next]_vars => IInv'
<1> SUFFICES ASSUME IInv, [Next]_vars PROVE IInv'
  OBVIOUS
<1>1. CASE EnterCpu
  BY <1>1, MoveStep DEF EnterCpu, PC
<1>2. CASE LeaveCpu
  BY <1>2, MoveStep DEF LeaveCpu, PC
<1>3. CASE \E s \in StateIds : Fork(s)
  BY <1>3, ForkStep
<1>4. CASE InstructionDone
  BY <1>4, UpdateStatesStep DEF InstructionDone, PC
<1>5. CASE BeginAtomic \/ EndAtomic \/ Yield
  BY <1>5, FlagStep
<1>6. CASE \E s \in StateIds : Terminate(s)
  BY <1>6, TerminateStep DEF Terminate
<1>7. CASE \E s \in StateIds : DropState(s)
  BY <1>7, TerminateStep DEF DropState
<1>8. CASE UnwindUpdate
  BY <1>8, UpdateStatesStep DEF UnwindUpdate, PC
<1>9. CASE UnwindDone
  BY <1>9, MoveStep DEF UnwindDone, PC
<1>10. CASE \E s \in StateIds : SuspendState(s)
  BY <1>10, SuspendStep
<1>11. CASE \E s \in StateIds : ResumeState(s)
  BY <1>11, ResumeStep
<1>12. CASE StateSwitchTimer
  BY <1>12, StateSwitchTimerStep
<1>13. CASE SelectUpdate
  BY <1>13, UpdateStatesStep DEF SelectUpdate, PC
<1>14. CASE KeepState
  BY <1>14, MoveStep DEF KeepState, PC
<1>15. CASE AllTerminated
  BY <1>15, AllTerminatedStep
<1>16. CASE \E s \in StateIds : SwitchState(s)
  BY <1>16, SwitchStateStep
<1>17. CASE UNCHANGED vars
  BY <1>17 DEF vars, queues, search, flags, IInv, TypeOK, NoAssertionFails, SearcherAgrees,
               Disjoint, Known, Terminated, Filed
<1> QED
  BY <1>1, <1>2, <1>3, <1>4, <1>5, <1>6, <1>7, <1>8, <1>9, <1>10, <1>11, <1>12, <1>13, <1>14,
     <1>15, <1>16, <1>17 DEF Next

LEMMA IInvImplies == IInv => NoUseAfterFree /\ LivePathsAreKept
<1> SUFFICES ASSUME IInv PROVE NoUseAfterFree /\ LivePathsAreKept
  OBVIOUS
<1> USE DEF IInv
<1>1. NoUseAfterFree
  BY DEF NoUseAfterFree, Disjoint, Known, Terminated, SearcherAgrees
<1>2. LivePathsAreKept
  BY DEF LivePathsAreKept, Terminated, SearcherAgrees
<1> QED
  BY <1>1, <1>2

\* For any number of states, whatever forks, yields, suspensions, kills and
\* state switches happen: no assertion of updateStates and selectNextState
\* fails, nothing freed is reachable, every live path is kept and the searcher
\* agrees with the engine.
THEOREM ExecutorStatesSafety ==
  Spec => [](TypeOK /\ NoAssertionFails /\ NoUseAfterFree /\ LivePathsAreKept /\ SearcherAgrees)
<1>1. IInv => TypeOK /\ NoAssertionFails /\ NoUseAfterFree /\ LivePathsAreKept /\ SearcherAgrees
  BY IInvImplies DEF IInv
<1> QED
  BY <1>1, InitIInv, NextIInv, PTL DEF Spec

\* A step of selectNextState that changes the current state has freed every state that
\* was terminated until then, the one it switches away from included.
THEOREM SwitchesReclaimMemory == Spec => SwitchFreesTerminated
<1>1. IInv /\ [Next]_vars => [current' # current => zombie' \subseteq freed']_vars
  <2> SUFFICES ASSUME IInv, Next, current' # current
               PROVE  zombie' \subseteq freed'
    OBVIOUS
  <2>1. PICK s \in StateIds : SwitchState(s)
    BY Zenon DEF Next, EnterCpu, LeaveCpu, Fork, InstructionDone, BeginAtomic, EndAtomic, Yield,
           Terminate, DropState, UnwindUpdate, UnwindDone, SuspendState, ResumeState,
           StateSwitchTimer, SelectUpdate, KeepState, AllTerminated
  <2>2. states \cap zombie = {} /\ zombie \subseteq states \cup deletedStates \cup freed
    BY <2>1 DEF SwitchState, IInv, Filed, Terminated
  <2>3. zombie' = zombie /\ freed' = freed \cup deletedStates
    BY <2>1 DEF SwitchState
  <2> QED
    BY <2>2, <2>3
<1> QED
  BY <1>1, InitIInv, NextIInv, PTL DEF Spec, SwitchFreesTerminated

\* No assertion of updateStates, suspendState and selectNextState fails, for any
\* number of states and any order of forks, terminations and plugin calls.
THEOREM ExecutorNeverAborts == Spec => []NoAssertionFails
BY ExecutorStatesSafety, PTL


\* A state that was forked and not terminated is never forgotten by updateStates: it
\* is scheduled, waits to be filed or was suspended.
THEOREM NoLivePathIsLost == Spec => []LivePathsAreKept
BY ExecutorStatesSafety, PTL


\* The searcher has exactly the states of the engine, and the state DFSSearcher
\* sticks to is one of them, although both are told in batches.
THEOREM SearcherStaysInStep == Spec => []SearcherAgrees
BY ExecutorStatesSafety, PTL

===============================================================================
