-------------------------- MODULE ProcessPoolProofs --------------------------
(***************************************************************************)
(* Proofs about ProcessPool for every number of processes and instances,   *)
(* alone and under LoadBalancing, which drives it, and about the guids of  *)
(* the states that LoadBalancing splits between the processes.             *)
(***************************************************************************)
EXTENDS LoadBalancing, TLAPS

\* The ids that were handed out and not yet used to name a directory differ from
\* each other, from the ids in use and from the names of all directories.
Fresh ==
  /\ \A d \in directories : d < lastFileId
  /\ \A p \in Registered : instanceId[p] < lastFileId
  /\ \A p \in Pending : newProcessId[p] < lastFileId /\ newProcessId[p] \notin directories
  /\ \A p \in Pending, q \in Registered : newProcessId[p] # instanceId[q]
  /\ \A p, q \in Pending : p # q => newProcessId[p] # newProcessId[q]
  /\ \A p \in Procs : pc[p] = "claimed" => instanceId[p] \notin directories

IInv == PoolTypeOK /\ NoAssertionFails /\ CountIsExact /\ SlotsMatchInstances /\ Fresh

-------------------------------------------------------------------------------
(***************************************************************************)
(* The guids of the states.  Between computeNewStateGuids and the end of   *)
(* doLoadBalancing a guid may be held by two processes, or by none and     *)
(* only be reserved in newIds.  The invariant therefore speaks of claims:  *)
(* the states whose guid a process will go on using (Kept), and the common *)
(* states for which it has reserved a new one (Renumbered).                *)
(***************************************************************************)
Kept(p) ==
  IF phase[p] = "child" THEN childSet[p] \ parentSet[p]
  ELSE IF phase[p] = "parent" THEN parentSet[p]
  ELSE states[p]

Renumbered(p) ==
  IF phase[p] = "parent" THEN {} ELSE {s \in Common(p) : newIds[p][s] # 0}

\* No two claims are for the same guid, and the shared counter is beyond all of them.
ClaimsAreDisjoint ==
  /\ \A p \in Procs : \A s \in Kept(p) : guid[p][s] < lastStateId
  /\ \A p \in Procs : \A s \in Renumbered(p) : newIds[p][s] < lastStateId
  /\ \A p, q \in Procs : \A s \in Kept(p), t \in Kept(q) :
       guid[p][s] = guid[q][t] => p = q /\ s = t
  /\ \A p, q \in Procs : \A s \in Renumbered(p), t \in Renumbered(q) :
       newIds[p][s] = newIds[q][t] => p = q /\ s = t
  /\ \A p, q \in Procs : \A s \in Kept(p), t \in Renumbered(q) :
       guid[p][s] # newIds[q][t]

\* Where a process is in doLoadBalancing follows from where it is in S2E::fork.
PhaseMatchesPc(p) ==
  /\ phase[p] = "forking" <=> pc[p] = "forking"
  /\ pc[p] \in {"starting", "claimed"} => phase[p] = "child"
  /\ pc[p] \in {"unborn", "dead"} => phase[p] = "idle" /\ states[p] = {}

\* A split covers the states of the process, as long as nothing is pinned, and
\* the fork comes after every common state has its number.
SplitIsComplete(p) ==
  /\ pinned[p] = {}
  /\ \A s \in states[p] : s < lastStateId
  /\ phase[p] = "idle" => parentSet[p] = {} /\ childSet[p] = {} /\ newIds[p] = NoIds
  /\ phase[p] # "idle" => parentSet[p] \cup childSet[p] = states[p]
  /\ phase[p] \in {"forking", "parent", "child"} => Unnumbered(p) = {}

\* What is still to be explored is claimed by some process.
EveryGuidIsKept ==
  \A g \in toExplore : \E p \in Procs : \E s \in Kept(p) : guid[p][s] = g

BalanceInv ==
  /\ BalanceTypeOK
  /\ lastStateId > 0
  /\ \A p \in Procs : PhaseMatchesPc(p) /\ SplitIsComplete(p)
  /\ ClaimsAreDisjoint
  /\ EveryGuidIsKept

\* The types of the claims, and what a claim says about its process.
LEMMA ClaimTypes ==
  ASSUME BalanceInv, NEW p \in Procs
  PROVE  /\ Kept(p) \subseteq states[p] /\ states[p] \subseteq StateIds
         /\ Renumbered(p) \subseteq Common(p) /\ Common(p) \subseteq states[p]
         /\ \A s \in StateIds : guid[p][s] \in StateIds /\ newIds[p][s] \in StateIds
         /\ Kept(p) # {} => pc[p] \notin {"unborn", "dead"}
         /\ lastStateId \in Nat /\ lastStateId > 0 /\ StateIds \subseteq Nat /\ 0 \in StateIds
         /\ MaxStateId \in Nat
<1>1. states[p] \in SUBSET StateIds /\ guid[p] \in [StateIds -> StateIds] /\ newIds[p] \in [StateIds -> StateIds]
      /\ lastStateId \in 0 .. MaxStateId /\ lastStateId > 0
  BY Zenon DEF BalanceInv, BalanceTypeOK
<1>2. MaxStateId \in Nat /\ MaxStateId # 0
  BY BalanceAssumption, Zenon
<1>3. phase[p] = "idle" => parentSet[p] = {} /\ childSet[p] = {}
  BY Zenon DEF BalanceInv, SplitIsComplete
<1>4. phase[p] # "idle" => parentSet[p] \cup childSet[p] = states[p]
  BY Zenon DEF BalanceInv, SplitIsComplete
<1>5. Kept(p) \subseteq states[p]
  BY <1>3, <1>4, Zenon DEF Kept
<1>6. Renumbered(p) \subseteq Common(p) /\ Common(p) \subseteq states[p]
  BY <1>3, <1>4, Zenon DEF Renumbered, Common
<1>7. pc[p] \in {"unborn", "dead"} => states[p] = {}
  BY Zenon DEF BalanceInv, PhaseMatchesPc
<1>8. lastStateId \in Nat /\ StateIds \subseteq Nat /\ 0 \in StateIds
  BY <1>1, <1>2 DEF StateIds
<1>9. \A s \in StateIds : guid[p][s] \in StateIds /\ newIds[p][s] \in StateIds
  BY <1>1, Zenon
<1>10. Kept(p) # {} => pc[p] \notin {"unborn", "dead"}
  BY <1>5, <1>7, Zenon
<1> QED BY <1>1, <1>2, <1>5, <1>6, <1>8, <1>9, <1>10, Zenon

\* A process at rest in doLoadBalancing has no locals, and keeps all of its states.
LEMMA IdleClaims ==
  ASSUME BalanceInv, NEW p \in Procs, phase[p] = "idle"
  PROVE  Kept(p) = states[p] /\ Renumbered(p) = {}
  BY Zenon DEF BalanceInv, SplitIsComplete, Kept, Renumbered, Common

\* The step does nothing to process q.
Untouched(q) ==
  /\ pc'[q] = pc[q] /\ phase'[q] = phase[q]
  /\ states'[q] = states[q] /\ guid'[q] = guid[q] /\ pinned'[q] = pinned[q]
  /\ parentSet'[q] = parentSet[q] /\ childSet'[q] = childSet[q] /\ newIds'[q] = newIds[q]

LEMMA UntouchedProcess ==
  ASSUME BalanceInv, lastStateId' \in Nat, lastStateId <= lastStateId',
         NEW q \in Procs, Untouched(q)
  PROVE  /\ Kept(q)' = Kept(q) /\ Renumbered(q)' = Renumbered(q)
         /\ PhaseMatchesPc(q)' /\ SplitIsComplete(q)'
<1>1. Common(q)' = Common(q)
  BY Zenon DEF Untouched, Common
<1>2. Unnumbered(q)' = Unnumbered(q)
  BY <1>1, Zenon DEF Untouched, Unnumbered
<1>3. Kept(q)' = Kept(q)
  BY Zenon DEF Untouched, Kept
<1>4. Renumbered(q)' = Renumbered(q)
  BY <1>1, Zenon DEF Untouched, Renumbered
<1>5. PhaseMatchesPc(q)'
  BY Zenon DEF BalanceInv, PhaseMatchesPc, Untouched
<1>6. \A s \in states'[q] : s < lastStateId'
  <2>1. states'[q] = states[q] /\ states[q] \subseteq Nat /\ lastStateId \in Nat
    BY ClaimTypes, Zenon DEF Untouched
  <2>2. \A s \in states[q] : s < lastStateId
    BY Zenon DEF BalanceInv, SplitIsComplete
  <2> QED BY <2>1, <2>2
<1>7. SplitIsComplete(q)'
  BY <1>2, <1>6, Zenon DEF BalanceInv, SplitIsComplete, Untouched
<1> QED BY <1>3, <1>4, <1>5, <1>7, Zenon

\* A step of one process that makes no new claim, and keeps those it has for what is
\* still to be explored.
LEMMA OneProcessStep ==
  ASSUME BalanceInv, BalanceTypeOK', lastStateId' = lastStateId, NEW p \in Procs,
         \A q \in Procs \ {p} : Untouched(q),
         PhaseMatchesPc(p)', SplitIsComplete(p)',
         \A s \in Kept(p)' : s \in Kept(p) /\ guid'[p][s] = guid[p][s],
         \A s \in Renumbered(p)' : s \in Renumbered(p) /\ newIds'[p][s] = newIds[p][s],
         toExplore' \subseteq toExplore,
         \A s \in Kept(p) : guid[p][s] \in toExplore' => s \in Kept(p)'
  PROVE  BalanceInv'
<1>0. lastStateId \in Nat /\ lastStateId > 0
  BY ClaimTypes, Zenon
<1>1. \A q \in Procs \ {p} : /\ Kept(q)' = Kept(q) /\ Renumbered(q)' = Renumbered(q)
                             /\ guid'[q] = guid[q] /\ newIds'[q] = newIds[q]
                             /\ PhaseMatchesPc(q)' /\ SplitIsComplete(q)'
  BY <1>0, UntouchedProcess DEF Untouched
<1>2. \A q \in Procs : \A s \in Kept(q)' : s \in Kept(q) /\ guid'[q][s] = guid[q][s]
  BY <1>1, Zenon
<1>3. \A q \in Procs : \A s \in Renumbered(q)' : s \in Renumbered(q) /\ newIds'[q][s] = newIds[q][s]
  BY <1>1, Zenon
<1>4. ClaimsAreDisjoint'
  BY <1>2, <1>3 DEF BalanceInv, ClaimsAreDisjoint
<1>5. EveryGuidIsKept'
  BY <1>1, <1>2 DEF BalanceInv, EveryGuidIsKept
<1>6. \A q \in Procs : PhaseMatchesPc(q)' /\ SplitIsComplete(q)'
  BY <1>1, Zenon
<1> QED BY <1>0, <1>4, <1>5, <1>6, Zenon DEF BalanceInv

-------------------------------------------------------------------------------
(***************************************************************************)
(* One lemma per action of doLoadBalancing.                                *)
(***************************************************************************)
LEMMA StateForkStep ==
  ASSUME BalanceInv, IInv', NEW p \in Procs, NEW s \in states[p], StateFork(p, s)
  PROVE  BalanceInv'
<1> DEFINE n == lastStateId
<1>0. /\ n \in Nat /\ n > 0 /\ n \in StateIds /\ n + 1 \in 0 .. MaxStateId /\ lastStateId' = n + 1
      /\ phase[p] = "idle" /\ pinned[p] = {}
  <2>1. n < MaxStateId /\ lastStateId' = n + 1 /\ phase[p] = "idle"
    BY Zenon DEF StateFork, Idle
  <2>2. pinned[p] = {}
    BY Zenon DEF BalanceInv, SplitIsComplete
  <2> QED BY <2>1, <2>2, ClaimTypes DEF StateIds
<1>1. /\ states \in [Procs -> SUBSET StateIds] /\ guid \in [Procs -> [StateIds -> StateIds]]
      /\ pinned \in [Procs -> SUBSET StateIds] /\ toExplore \subseteq StateIds
  BY Zenon DEF BalanceInv, BalanceTypeOK
<1>2. /\ states' = [states EXCEPT ![p] = @ \cup {n}]
      /\ guid' = [guid EXCEPT ![p] = [@ EXCEPT ![n] = n]]
      /\ toExplore' = toExplore \cup {n}
      /\ UNCHANGED <<pc, phase, parentSet, childSet, newIds>>
  BY Zenon DEF StateFork, poolVars
<1>3. pinned' = pinned
  BY <1>0, <1>1, Zenon DEF StateFork
<1>4. states' \in [Procs -> SUBSET StateIds] /\ guid' \in [Procs -> [StateIds -> StateIds]]
  BY <1>0, <1>1, <1>2, Zenon
<1>5. BalanceTypeOK'
  BY <1>0, <1>1, <1>2, <1>3, <1>4, Zenon DEF IInv, BalanceInv, BalanceTypeOK
<1>6. \A q \in Procs \ {p} : Untouched(q)
  BY <1>1, <1>2, <1>3, Zenon DEF Untouched
<1>7. \A q \in Procs \ {p} : /\ Kept(q)' = Kept(q) /\ Renumbered(q)' = Renumbered(q)
                             /\ guid'[q] = guid[q] /\ PhaseMatchesPc(q)' /\ SplitIsComplete(q)'
  BY <1>0, <1>6, UntouchedProcess DEF Untouched
<1>8. /\ Kept(p) = states[p] /\ Renumbered(p) = {} /\ n \notin states[p]
      /\ Kept(p)' = Kept(p) \cup {n} /\ Renumbered(p)' = {}
  <2>1. states'[p] = states[p] \cup {n}
    BY <1>1, <1>2, Zenon
  <2>2. Kept(p)' = states'[p] /\ Renumbered(p)' = Renumbered(p)
    BY <1>0, <1>2, Zenon DEF Kept, Renumbered, Common
  <2>3. n \notin states[p]
    BY <1>0 DEF BalanceInv, SplitIsComplete
  <2> QED BY <1>0, <2>1, <2>2, <2>3, IdleClaims, Zenon
<1>9. guid'[p][n] = n /\ \A t \in Kept(p) : guid'[p][t] = guid[p][t] /\ guid[p][t] \in Nat
  <2>1. Kept(p) \subseteq StateIds \ {n}
    BY <1>8, ClaimTypes, Zenon
  <2>2. guid'[p] = [guid[p] EXCEPT ![n] = n] /\ guid[p] \in [StateIds -> StateIds]
    BY <1>1, <1>2, Zenon
  <2>3. StateIds \subseteq Nat
    BY ClaimTypes, Zenon
  <2> HIDE DEF n
  <2> QED BY <1>0, <2>1, <2>2, <2>3, ZenonT(30)
<1>10. PhaseMatchesPc(p)'
  BY <1>0, <1>2, Zenon DEF BalanceInv, PhaseMatchesPc, StateFork, Idle
<1>11. SplitIsComplete(p)'
  <2>1. \A t \in states'[p] : t < lastStateId'
    <3>1. states'[p] = states[p] \cup {n} /\ states[p] \subseteq Nat
      BY <1>1, <1>2, ClaimTypes, Zenon
    <3>2. \A t \in states[p] : t < n
      BY Zenon DEF BalanceInv, SplitIsComplete
    <3> QED BY <1>0, <3>1, <3>2
  <2>2. Unnumbered(p)' = Unnumbered(p)
    BY <1>2, Zenon DEF Unnumbered, Common
  <2> QED BY <1>0, <1>2, <1>3, <2>1, <2>2, Zenon DEF BalanceInv, SplitIsComplete
<1>12. ClaimsAreDisjoint'
  <2>1. ClaimsAreDisjoint
    BY Zenon DEF BalanceInv
  <2>2. \A q \in Procs : \A t \in Kept(q) : guid[q][t] \in Nat /\ guid[q][t] < n
    BY <2>1, ClaimTypes, Zenon DEF ClaimsAreDisjoint
  <2>3. \A q \in Procs : \A t \in Renumbered(q) : newIds[q][t] \in Nat /\ newIds[q][t] < n
    BY <2>1, ClaimTypes, Zenon DEF ClaimsAreDisjoint
  <2>4. \A q \in Procs : Renumbered(q)' = Renumbered(q) /\ newIds'[q] = newIds[q]
    BY <1>2, <1>7, <1>8, Zenon
  <2>5. \A q \in Procs : \A t \in Kept(q)' :
          (t \in Kept(q) /\ guid'[q][t] = guid[q][t]) \/ (q = p /\ t = n /\ guid'[q][t] = n)
    BY <1>7, <1>8, <1>9, ZenonT(30)
  <2> HIDE DEF n
  <2> QED BY <1>0, <2>1, <2>2, <2>3, <2>4, <2>5 DEF ClaimsAreDisjoint
<1>13. EveryGuidIsKept'
  <2>1. ASSUME NEW g \in toExplore
        PROVE  \E q \in Procs : \E t \in Kept(q)' : guid'[q][t] = g
    <3>1. PICK q \in Procs : \E t \in Kept(q) : guid[q][t] = g
      BY Zenon DEF BalanceInv, EveryGuidIsKept
    <3> QED BY <3>1, <1>7, <1>8, <1>9
  <2> QED BY <1>2, <1>8, <1>9, <2>1 DEF EveryGuidIsKept
<1>14. \A q \in Procs : PhaseMatchesPc(q)' /\ SplitIsComplete(q)'
  BY <1>7, <1>10, <1>11, Zenon
<1>15. lastStateId' > 0
  BY <1>0
<1> QED BY <1>5, <1>12, <1>13, <1>14, <1>15, Zenon DEF BalanceInv

LEMMA TerminateStateStep ==
  ASSUME BalanceInv, IInv', NEW p \in Procs, NEW s \in states[p], TerminateState(p, s)
  PROVE  BalanceInv'
<1>0. /\ lastStateId \in Nat /\ lastStateId > 0 /\ lastStateId' = lastStateId
      /\ phase[p] = "idle" /\ s \in StateIds /\ 0 \in StateIds
  BY ClaimTypes, Zenon DEF TerminateState, Idle
<1>1. /\ states \in [Procs -> SUBSET StateIds] /\ guid \in [Procs -> [StateIds -> StateIds]]
      /\ pinned \in [Procs -> SUBSET StateIds] /\ toExplore \subseteq StateIds
  BY Zenon DEF BalanceInv, BalanceTypeOK
<1>2. /\ states' = [states EXCEPT ![p] = @ \ {s}]
      /\ guid' = [guid EXCEPT ![p] = [@ EXCEPT ![s] = 0]]
      /\ pinned' = [pinned EXCEPT ![p] = @ \ {s}]
      /\ toExplore' = toExplore \ {guid[p][s]}
      /\ UNCHANGED <<pc, phase, parentSet, childSet, newIds>>
  BY Zenon DEF TerminateState, poolVars
<1>3. states' \in [Procs -> SUBSET StateIds] /\ guid' \in [Procs -> [StateIds -> StateIds]]
      /\ pinned' \in [Procs -> SUBSET StateIds]
  BY <1>0, <1>1, <1>2, Zenon
<1>4. BalanceTypeOK'
  BY <1>0, <1>1, <1>2, <1>3, Zenon DEF IInv, BalanceInv, BalanceTypeOK
<1>5. \A q \in Procs \ {p} : Untouched(q)
  BY <1>1, <1>2, Zenon DEF Untouched
<1>7. states'[p] = states[p] \ {s} /\ pinned'[p] = pinned[p] \ {s}
      /\ guid'[p] = [guid[p] EXCEPT ![s] = 0]
  BY <1>1, <1>2, Zenon
<1>8. Kept(p) = states[p] /\ Kept(p)' = Kept(p) \ {s} /\ Renumbered(p)' = Renumbered(p)
  BY <1>0, <1>2, <1>7, IdleClaims, Zenon DEF Kept, Renumbered, Common
<1>9. \A t \in Kept(p)' : guid'[p][t] = guid[p][t]
  <2>1. Kept(p)' \subseteq StateIds \ {s} /\ guid[p] \in [StateIds -> StateIds]
    BY <1>1, <1>8, ClaimTypes, Zenon
  <2> QED BY <1>7, <2>1, Zenon
<1>10. PhaseMatchesPc(p)'
  BY <1>0, <1>2, Zenon DEF BalanceInv, PhaseMatchesPc, TerminateState, Idle
<1>11. SplitIsComplete(p)'
  <2>1. Unnumbered(p)' = Unnumbered(p)
    BY <1>2, Zenon DEF Unnumbered, Common
  <2>2. \A t \in states'[p] : t < lastStateId'
    BY <1>0, <1>7, Zenon DEF BalanceInv, SplitIsComplete
  <2> QED BY <1>0, <1>2, <1>7, <2>1, <2>2, Zenon DEF BalanceInv, SplitIsComplete
<1> QED BY <1>0, <1>2, <1>4, <1>5, <1>8, <1>9, <1>10, <1>11, OneProcessStep, Zenon

\* Nothing is pinned, so the two sets cover all states.
LEMMA BalanceStartStep ==
  ASSUME BalanceInv, IInv', NEW p \in Procs, NEW keep \in SUBSET states[p],
         NEW give \in SUBSET states[p], BalanceStart(p, keep, give)
  PROVE  BalanceInv'
<1>0. /\ lastStateId \in Nat /\ lastStateId > 0 /\ lastStateId' = lastStateId
      /\ phase[p] = "idle" /\ pinned[p] = {} /\ newIds[p] = NoIds
      /\ keep \cup give = states[p] /\ states[p] \subseteq StateIds
  <2>1. pinned[p] = {} /\ phase[p] = "idle" /\ newIds[p] = NoIds
    BY Zenon DEF BalanceInv, SplitIsComplete, BalanceStart, Idle
  <2>2. keep \cup give = states[p]
    BY <2>1, Zenon DEF BalanceStart, Movable
  <2> QED BY <2>1, <2>2, ClaimTypes, Zenon DEF BalanceStart
<1>1. /\ parentSet \in [Procs -> SUBSET StateIds] /\ childSet \in [Procs -> SUBSET StateIds]
      /\ phase \in [Procs -> Phase]
  BY Zenon DEF BalanceInv, BalanceTypeOK
<1>2. /\ parentSet' = [parentSet EXCEPT ![p] = keep]
      /\ childSet' = [childSet EXCEPT ![p] = give]
      /\ phase' = [phase EXCEPT ![p] = "numbering"]
      /\ UNCHANGED <<pc, states, guid, pinned, newIds, toExplore>>
  BY Zenon DEF BalanceStart, Enter, poolVars
<1>3. /\ parentSet' \in [Procs -> SUBSET StateIds] /\ childSet' \in [Procs -> SUBSET StateIds]
      /\ phase' \in [Procs -> Phase]
  BY <1>0, <1>1, <1>2, Zenon DEF Phase
<1>4. BalanceTypeOK'
  BY <1>0, <1>2, <1>3, Zenon DEF IInv, BalanceInv, BalanceTypeOK
<1>5. \A q \in Procs \ {p} : Untouched(q)
  BY <1>1, <1>2, Zenon DEF Untouched
<1>7. parentSet'[p] = keep /\ childSet'[p] = give /\ phase'[p] = "numbering"
  BY <1>1, <1>2, Zenon
<1>8. Kept(p)' = Kept(p)
  BY <1>0, <1>2, <1>7, Zenon DEF Kept
<1>9. Renumbered(p)' = {}
  <2>1. Common(p)' \subseteq StateIds
    BY <1>0, <1>7, Zenon DEF Common
  <2>2. \A t \in StateIds : newIds'[p][t] = 0
    BY <1>0, <1>2, Zenon DEF NoIds
  <2> QED BY <2>1, <2>2, Zenon DEF Renumbered
<1>10. PhaseMatchesPc(p)'
  BY <1>0, <1>2, <1>7, Zenon DEF BalanceInv, PhaseMatchesPc, BalanceStart, Idle
<1>11. SplitIsComplete(p)'
  BY <1>0, <1>2, <1>7, Zenon DEF BalanceInv, SplitIsComplete
<1> QED BY <1>0, <1>2, <1>4, <1>5, <1>8, <1>9, <1>10, <1>11, OneProcessStep, Zenon

\* The shared counter gives each common state a number that nobody has.
LEMMA ComputeNewStateGuidStep ==
  ASSUME BalanceInv, IInv', NEW p \in Procs, NEW s \in Common(p), ComputeNewStateGuid(p, s)
  PROVE  BalanceInv'
<1> DEFINE n == lastStateId
<1>0. /\ n \in Nat /\ n > 0 /\ n \in StateIds /\ n + 1 \in 0 .. MaxStateId /\ lastStateId' = n + 1
      /\ phase[p] = "numbering" /\ s \in StateIds
  <2>1. n < MaxStateId /\ lastStateId' = n + 1 /\ phase[p] = "numbering"
    BY Zenon DEF ComputeNewStateGuid
  <2> QED BY <2>1, ClaimTypes DEF StateIds
<1>1. newIds \in [Procs -> [StateIds -> StateIds]]
  BY Zenon DEF BalanceInv, BalanceTypeOK
<1>2. /\ newIds' = [newIds EXCEPT ![p] = [@ EXCEPT ![s] = n]]
      /\ UNCHANGED <<pc, states, guid, pinned, phase, parentSet, childSet, toExplore>>
  BY Zenon DEF ComputeNewStateGuid, poolVars
<1>3. newIds' \in [Procs -> [StateIds -> StateIds]]
  BY <1>0, <1>1, <1>2, Zenon
<1>4. BalanceTypeOK'
  BY <1>0, <1>2, <1>3, Zenon DEF IInv, BalanceInv, BalanceTypeOK
<1>5. \A q \in Procs \ {p} : Untouched(q)
  BY <1>1, <1>2, Zenon DEF Untouched
<1>6. \A q \in Procs \ {p} : /\ Kept(q)' = Kept(q) /\ Renumbered(q)' = Renumbered(q)
                             /\ newIds'[q] = newIds[q] /\ PhaseMatchesPc(q)' /\ SplitIsComplete(q)'
  BY <1>0, <1>5, UntouchedProcess DEF Untouched
<1>7. newIds'[p] = [newIds[p] EXCEPT ![s] = n] /\ newIds[p] \in [StateIds -> StateIds]
  BY <1>1, <1>2, Zenon
<1>8. Kept(p)' = Kept(p)
  BY <1>2, Zenon DEF Kept
<1>9. \A t \in Renumbered(p)' :
        (t \in Renumbered(p) /\ newIds'[p][t] = newIds[p][t]) \/ (t = s /\ newIds'[p][t] = n)
  <2>1. Common(p)' = Common(p) /\ Common(p) \subseteq StateIds
    BY <1>2, ClaimTypes, Zenon DEF Common
  <2> HIDE DEF n
  <2> QED BY <1>0, <1>2, <1>7, <2>1 DEF Renumbered
<1>10. PhaseMatchesPc(p)'
  BY <1>2, Zenon DEF BalanceInv, PhaseMatchesPc
<1>11. SplitIsComplete(p)'
  <2>1. \A t \in states'[p] : t < lastStateId'
    <3>1. states'[p] = states[p] /\ states[p] \subseteq Nat
      BY <1>2, ClaimTypes, Zenon
    <3>2. \A t \in states[p] : t < n
      BY Zenon DEF BalanceInv, SplitIsComplete
    <3> QED BY <1>0, <3>1, <3>2
  <2> QED BY <1>0, <1>2, <2>1, Zenon DEF BalanceInv, SplitIsComplete
<1>12. ClaimsAreDisjoint'
  <2>1. ClaimsAreDisjoint
    BY Zenon DEF BalanceInv
  <2>2. \A q \in Procs : \A t \in Kept(q) : guid[q][t] \in Nat /\ guid[q][t] < n
    BY <2>1, ClaimTypes, Zenon DEF ClaimsAreDisjoint
  <2>3. \A q \in Procs : \A t \in Renumbered(q) : newIds[q][t] \in Nat /\ newIds[q][t] < n
    BY <2>1, ClaimTypes, Zenon DEF ClaimsAreDisjoint
  <2>4. \A q \in Procs : Kept(q)' = Kept(q) /\ guid'[q] = guid[q]
    BY <1>2, <1>6, <1>8, Zenon
  <2>5. \A q \in Procs : \A t \in Renumbered(q)' :
          (t \in Renumbered(q) /\ newIds'[q][t] = newIds[q][t]) \/ (q = p /\ t = s /\ newIds'[q][t] = n)
    BY <1>6, <1>9, Zenon
  <2> HIDE DEF n
  <2> QED BY <1>0, <2>1, <2>2, <2>3, <2>4, <2>5 DEF ClaimsAreDisjoint
<1>13. EveryGuidIsKept'
  <2>1. \A q \in Procs : Kept(q)' = Kept(q)
    BY <1>6, <1>8, Zenon
  <2> QED BY <1>2, <2>1, ZenonT(30) DEF BalanceInv, EveryGuidIsKept
<1>14. \A q \in Procs : PhaseMatchesPc(q)' /\ SplitIsComplete(q)'
  BY <1>6, <1>10, <1>11, Zenon
<1> QED BY <1>0, <1>4, <1>12, <1>13, <1>14 DEF BalanceInv

\* doLoadBalancing returns before the fork: the states stay and the reserved
\* numbers are never used.
LEMMA ReturnStep ==
  ASSUME BalanceInv, IInv', NEW p \in Procs, Return(p), phase[p] \in {"numbering", "forking"},
         pc' = [pc EXCEPT ![p] = "running"],
         UNCHANGED <<lastStateId, states, guid, pinned, toExplore>>
  PROVE  BalanceInv'
<1>0. lastStateId \in Nat /\ lastStateId > 0
  BY ClaimTypes, Zenon
<1>1. /\ parentSet \in [Procs -> SUBSET StateIds] /\ childSet \in [Procs -> SUBSET StateIds]
      /\ phase \in [Procs -> Phase] /\ newIds \in [Procs -> [StateIds -> StateIds]]
      /\ pc \in [Procs -> PC]
  BY Zenon DEF BalanceInv, BalanceTypeOK, PoolTypeOK
<1>2. NoIds \in [StateIds -> StateIds]
  BY ClaimTypes, Zenon DEF NoIds
<1>3. /\ parentSet' = [parentSet EXCEPT ![p] = {}]
      /\ childSet' = [childSet EXCEPT ![p] = {}]
      /\ newIds' = [newIds EXCEPT ![p] = NoIds]
      /\ phase' = [phase EXCEPT ![p] = "idle"]
  BY Zenon DEF Return, Enter
<1>4. /\ parentSet' \in [Procs -> SUBSET StateIds] /\ childSet' \in [Procs -> SUBSET StateIds]
      /\ phase' \in [Procs -> Phase] /\ newIds' \in [Procs -> [StateIds -> StateIds]]
  BY <1>1, <1>2, <1>3, Zenon DEF Phase
<1>5. BalanceTypeOK'
  BY <1>4, Zenon DEF IInv, BalanceInv, BalanceTypeOK
<1>6. \A q \in Procs \ {p} : Untouched(q)
  BY <1>1, <1>3, Zenon DEF Untouched
<1>8. /\ parentSet'[p] = {} /\ childSet'[p] = {} /\ newIds'[p] = NoIds
      /\ phase'[p] = "idle" /\ pc'[p] = "running"
  BY <1>1, <1>3, Zenon
<1>9. Kept(p)' = Kept(p) /\ Renumbered(p)' = {}
  BY <1>8, Zenon DEF Kept, Renumbered, Common
<1>10. PhaseMatchesPc(p)' /\ SplitIsComplete(p)'
  BY <1>8, Zenon DEF BalanceInv, PhaseMatchesPc, SplitIsComplete
<1> QED BY <1>5, <1>6, <1>9, <1>10, OneProcessStep, Zenon

LEMMA BalanceRefusedStep ==
  ASSUME BalanceInv, IInv', NEW p \in Procs, BalanceRefused(p)
  PROVE  BalanceInv'
<1>1. pc[p] = "running" /\ phase[p] = "numbering" /\ Return(p) /\ pc' = pc
      /\ UNCHANGED <<lastStateId, states, guid, pinned, toExplore>>
  BY Zenon DEF BalanceRefused, poolVars
<1>2. pc' = [pc EXCEPT ![p] = "running"]
  BY <1>1, Zenon DEF BalanceInv, BalanceTypeOK, PoolTypeOK
<1> QED BY <1>1, <1>2, ReturnStep, Zenon

LEMMA BalanceFailedStep ==
  ASSUME BalanceInv, IInv', NEW p \in Procs, BalanceFailed(p)
  PROVE  BalanceInv'
<1>1. pc[p] = "forking" /\ Return(p) /\ UNCHANGED <<lastStateId, states, guid, pinned, toExplore>>
  BY Zenon DEF BalanceFailed, ForkFailed
<1>2. pc' = [pc EXCEPT ![p] = "running"]
  <2>1. pc \in [Procs -> PC] /\ pc'[p] # "aborted"
    BY Zenon DEF BalanceInv, BalanceTypeOK, PoolTypeOK, IInv, NoAssertionFails
  <2> QED BY <2>1, Zenon DEF BalanceFailed, ForkFailed, Check, Goto
<1>3. phase[p] = "forking"
  BY <1>1, Zenon DEF BalanceInv, PhaseMatchesPc
<1> QED BY <1>1, <1>2, <1>3, ReturnStep, Zenon

LEMMA BalanceReserveStep ==
  ASSUME BalanceInv, IInv', NEW p \in Procs, BalanceReserve(p)
  PROVE  BalanceInv'
<1>1. /\ phase[p] = "numbering" /\ Unnumbered(p) = {} /\ pc[p] = "running"
      /\ phase' = [phase EXCEPT ![p] = "forking"]
      /\ UNCHANGED <<lastStateId, states, guid, pinned, parentSet, childSet, newIds, toExplore>>
  BY Zenon DEF BalanceReserve, ForkReserve, Enter
<1>2. phase \in [Procs -> Phase] /\ pc \in [Procs -> PC] /\ pc'[p] # "aborted"
  BY Zenon DEF BalanceInv, BalanceTypeOK, PoolTypeOK, IInv, NoAssertionFails
<1>3. pc' = [pc EXCEPT ![p] = "forking"]
  BY <1>2, Zenon DEF BalanceReserve, ForkReserve, Check, Goto
<1>4. /\ phase' \in [Procs -> Phase] /\ phase'[p] = "forking" /\ pc'[p] = "forking"
      /\ \A q \in Procs \ {p} : pc'[q] = pc[q] /\ phase'[q] = phase[q]
  BY <1>1, <1>2, <1>3, Zenon DEF Phase
<1>5. Kept(p)' = Kept(p) /\ Renumbered(p)' = Renumbered(p) /\ Unnumbered(p)' = Unnumbered(p)
  BY <1>1, <1>4, Zenon DEF Kept, Renumbered, Unnumbered, Common
<1>6. PhaseMatchesPc(p)'
  BY <1>4, Zenon DEF PhaseMatchesPc
<1>7. SplitIsComplete(p)'
  BY <1>1, <1>4, <1>5, Zenon DEF BalanceInv, SplitIsComplete
<1>8. BalanceTypeOK'
  BY <1>1, <1>4, Zenon DEF IInv, BalanceInv, BalanceTypeOK
<1>9. \A q \in Procs \ {p} : Untouched(q)
  BY <1>1, <1>4, Zenon DEF Untouched
<1> QED BY <1>1, <1>5, <1>6, <1>7, <1>8, <1>9, OneProcessStep, Zenon

LEMMA ChildStartsStep ==
  ASSUME BalanceInv, IInv', NEW p \in Procs, ChildStarts(p)
  PROVE  BalanceInv'
<1>1. /\ UNCHANGED <<lastStateId, states, guid, pinned, parentSet, childSet, newIds, toExplore>>
      /\ phase' = phase
  BY Zenon DEF ChildStarts, balanceVars
<1>2. phase \in [Procs -> Phase] /\ pc \in [Procs -> PC] /\ pc'[p] # "aborted"
  BY Zenon DEF BalanceInv, BalanceTypeOK, PoolTypeOK, IInv, NoAssertionFails
<1>3. \/ pc[p] = "starting" /\ pc' = [pc EXCEPT ![p] = "claimed"]
      \/ pc[p] = "claimed" /\ pc' = [pc EXCEPT ![p] = "running"]
  BY <1>2, Zenon DEF ChildStarts, ClaimSlot, InitOutputDirectory, Check, Goto
<1>4. phase[p] = "child"
  BY <1>3, Zenon DEF BalanceInv, PhaseMatchesPc
<1>5. /\ pc'[p] \in {"claimed", "running"}
      /\ \A q \in Procs \ {p} : pc'[q] = pc[q] /\ phase'[q] = phase[q]
  BY <1>1, <1>2, <1>3, Zenon
<1>6. Kept(p)' = Kept(p) /\ Renumbered(p)' = Renumbered(p) /\ Unnumbered(p)' = Unnumbered(p)
  BY <1>1, Zenon DEF Kept, Renumbered, Unnumbered, Common
<1>7. PhaseMatchesPc(p)'
  BY <1>1, <1>4, <1>5, Zenon DEF PhaseMatchesPc
<1>8. SplitIsComplete(p)'
  BY <1>1, <1>6, Zenon DEF BalanceInv, SplitIsComplete
<1>9. BalanceTypeOK'
  BY <1>1, Zenon DEF IInv, BalanceInv, BalanceTypeOK
<1>10. \A q \in Procs \ {p} : Untouched(q)
  BY <1>1, <1>5, Zenon DEF Untouched
<1> QED BY <1>1, <1>6, <1>7, <1>8, <1>9, <1>10, OneProcessStep, Zenon

LEMMA ProcessExitStep ==
  ASSUME BalanceInv, IInv', NEW p \in Procs, ProcessExit(p)
  PROVE  BalanceInv'
<1>0. /\ lastStateId \in Nat /\ lastStateId > 0 /\ lastStateId' = lastStateId
      /\ phase[p] = "idle" /\ NoIds \in [StateIds -> StateIds]
  BY ClaimTypes, Zenon DEF ProcessExit, NoIds
<1>1. /\ states \in [Procs -> SUBSET StateIds] /\ guid \in [Procs -> [StateIds -> StateIds]]
      /\ pinned \in [Procs -> SUBSET StateIds] /\ toExplore \subseteq StateIds
      /\ pc \in [Procs -> PC] /\ pc'[p] # "aborted"
  BY Zenon DEF BalanceInv, BalanceTypeOK, PoolTypeOK, IInv, NoAssertionFails
<1>2. /\ states' = [states EXCEPT ![p] = {}]
      /\ guid' = [guid EXCEPT ![p] = NoIds]
      /\ pinned' = [pinned EXCEPT ![p] = {}]
      /\ toExplore' = toExplore \ Guids(p)
      /\ UNCHANGED <<phase, parentSet, childSet, newIds>>
  BY Zenon DEF ProcessExit
<1>3. pc' = [pc EXCEPT ![p] = "dead"]
  BY <1>1, Zenon DEF ProcessExit, Terminate, Check, Goto
<1>4. states' \in [Procs -> SUBSET StateIds] /\ guid' \in [Procs -> [StateIds -> StateIds]]
      /\ pinned' \in [Procs -> SUBSET StateIds]
  BY <1>0, <1>1, <1>2, Zenon
<1>5. BalanceTypeOK'
  BY <1>0, <1>1, <1>2, <1>4, Zenon DEF IInv, BalanceInv, BalanceTypeOK
<1>6. \A q \in Procs \ {p} : Untouched(q)
  BY <1>1, <1>2, <1>3, Zenon DEF Untouched
<1>8. states'[p] = {} /\ pinned'[p] = {} /\ pc'[p] = "dead"
  BY <1>1, <1>2, <1>3, Zenon
<1>9. Kept(p) = states[p] /\ Kept(p)' = {} /\ Renumbered(p)' = Renumbered(p)
  BY <1>0, <1>2, <1>8, IdleClaims, Zenon DEF Kept, Renumbered, Common
<1>10. PhaseMatchesPc(p)' /\ SplitIsComplete(p)'
  BY <1>0, <1>2, <1>8, Zenon DEF BalanceInv, PhaseMatchesPc, SplitIsComplete
<1>11. toExplore' \subseteq toExplore /\ \A s \in Kept(p) : guid[p][s] \notin toExplore'
  BY <1>2, <1>9, Zenon DEF Guids
<1> QED BY <1>0, <1>2, <1>5, <1>6, <1>9, <1>10, <1>11, OneProcessStep, Zenon

\* The fork divides the parent's claims: the parent keeps those of its own set, the
\* child has those of the rest and all reserved numbers.
LEMMA BalanceForkedStep ==
  ASSUME BalanceInv, IInv', NEW p \in Procs, NEW c \in Procs, BalanceForked(p, c)
  PROVE  BalanceInv'
<1>0. /\ lastStateId \in Nat /\ lastStateId > 0 /\ lastStateId' = lastStateId /\ toExplore' = toExplore
      /\ pc[p] = "forking" /\ pc[c] = "unborn" /\ p # c
  BY ClaimTypes, Zenon DEF BalanceForked, ForkSucceeded
<1>1. /\ phase[p] = "forking" /\ Unnumbered(p) = {} /\ parentSet[p] \cup childSet[p] = states[p]
      /\ phase[c] = "idle" /\ states[c] = {} /\ pinned[p] = {}
      /\ \A t \in states[p] : t < lastStateId
  BY <1>0, Zenon DEF BalanceInv, PhaseMatchesPc, SplitIsComplete
<1>2. /\ states \in [Procs -> SUBSET StateIds] /\ guid \in [Procs -> [StateIds -> StateIds]]
      /\ pinned \in [Procs -> SUBSET StateIds] /\ phase \in [Procs -> Phase]
      /\ parentSet \in [Procs -> SUBSET StateIds] /\ childSet \in [Procs -> SUBSET StateIds]
      /\ newIds \in [Procs -> [StateIds -> StateIds]] /\ pc \in [Procs -> PC]
  BY Zenon DEF BalanceInv, BalanceTypeOK, PoolTypeOK
<1>3. /\ states' = [states EXCEPT ![c] = states[p]] /\ guid' = [guid EXCEPT ![c] = guid[p]]
      /\ pinned' = [pinned EXCEPT ![c] = pinned[p]] /\ newIds' = [newIds EXCEPT ![c] = newIds[p]]
      /\ parentSet' = [parentSet EXCEPT ![c] = parentSet[p]]
      /\ childSet' = [childSet EXCEPT ![c] = childSet[p]]
  BY Zenon DEF BalanceForked
<1>4. /\ states' \in [Procs -> SUBSET StateIds] /\ guid' \in [Procs -> [StateIds -> StateIds]]
      /\ pinned' \in [Procs -> SUBSET StateIds]
      /\ parentSet' \in [Procs -> SUBSET StateIds] /\ childSet' \in [Procs -> SUBSET StateIds]
      /\ newIds' \in [Procs -> [StateIds -> StateIds]]
  BY <1>2, <1>3, Zenon
<1>5. /\ phase' \in [Procs -> Phase] /\ phase'[p] = "parent" /\ phase'[c] = "child"
      /\ \A q \in Procs \ {p, c} : phase'[q] = phase[q]
  <2> DEFINE half == [phase EXCEPT ![p] = "parent"]
  <2>1. /\ half \in [Procs -> Phase] /\ half[p] = "parent"
        /\ \A q \in Procs \ {p} : half[q] = phase[q]
    BY <1>2, Zenon DEF Phase
  <2>2. phase' = [half EXCEPT ![c] = "child"]
    BY Zenon DEF BalanceForked
  <2> HIDE DEF half
  <2> QED BY <1>0, <2>1, <2>2, Zenon DEF Phase
<1>6. /\ pc'[p] = "running" /\ pc'[c] = "starting"
      /\ \A q \in Procs \ {p, c} : pc'[q] = pc[q]
  <2> DEFINE half == [pc EXCEPT ![p] = "running"]
  <2>1. /\ half \in [Procs -> PC] /\ half[p] = "running"
        /\ \A q \in Procs \ {p} : half[q] = pc[q]
    BY <1>2, Zenon DEF PC
  <2>2. pc' = [half EXCEPT ![c] = "starting"]
    BY Zenon DEF BalanceForked, ForkSucceeded
  <2> HIDE DEF half
  <2> QED BY <1>0, <2>1, <2>2, Zenon DEF PC
<1>12. Kept(p) = parentSet[p] \cup childSet[p] /\ Kept(c) = {} /\ Renumbered(c) = {}
  BY <1>0, <1>1, IdleClaims, Zenon DEF Kept
<1>7. BalanceTypeOK'
  BY <1>0, <1>4, <1>5, Zenon DEF IInv, BalanceInv, BalanceTypeOK
<1>8. \A q \in Procs \ {p, c} : Untouched(q)
  BY <1>2, <1>3, <1>5, <1>6, Zenon DEF Untouched
<1>9. \A q \in Procs \ {p, c} : /\ Kept(q)' = Kept(q) /\ Renumbered(q)' = Renumbered(q)
                                /\ guid'[q] = guid[q] /\ newIds'[q] = newIds[q]
                                /\ PhaseMatchesPc(q)' /\ SplitIsComplete(q)'
  BY <1>0, <1>8, UntouchedProcess DEF Untouched
<1>10. /\ states'[c] = states[p] /\ guid'[c] = guid[p] /\ pinned'[c] = pinned[p]
       /\ newIds'[c] = newIds[p] /\ parentSet'[c] = parentSet[p] /\ childSet'[c] = childSet[p]
  BY <1>2, <1>3, Zenon
<1>11. /\ states'[p] = states[p] /\ guid'[p] = guid[p] /\ pinned'[p] = pinned[p]
       /\ newIds'[p] = newIds[p] /\ parentSet'[p] = parentSet[p] /\ childSet'[p] = childSet[p]
  BY <1>0, <1>2, <1>3, Zenon
<1>13. Kept(p)' = parentSet[p] /\ Renumbered(p)' = {}
  BY <1>5, <1>11, Zenon DEF Kept, Renumbered
<1>14. Kept(c)' = childSet[p] \ parentSet[p] /\ Renumbered(c)' = Renumbered(p)
  BY <1>1, <1>5, <1>10, Zenon DEF Kept, Renumbered, Common
<1>15. Unnumbered(p)' = {} /\ Unnumbered(c)' = {}
  BY <1>1, <1>10, <1>11, Zenon DEF Unnumbered, Common
<1>16. PhaseMatchesPc(p)' /\ PhaseMatchesPc(c)'
  BY <1>5, <1>6, Zenon DEF PhaseMatchesPc
<1>17. SplitIsComplete(p)' /\ SplitIsComplete(c)'
  BY <1>0, <1>1, <1>5, <1>10, <1>11, <1>15, Zenon DEF SplitIsComplete
<1>18. ClaimsAreDisjoint'
  <2>1. ClaimsAreDisjoint
    BY Zenon DEF BalanceInv
  <2> DEFINE from(q) == IF q = c THEN p ELSE q
  <2>2. \A q \in Procs : from(q) \in Procs
    OBVIOUS
  <2>3. \A q \in Procs : \A t \in Kept(q)' : t \in Kept(from(q)) /\ guid'[q][t] = guid[from(q)][t]
    BY <1>0, <1>9, <1>10, <1>11, <1>12, <1>13, <1>14, Zenon
  <2>4. \A q \in Procs : \A t \in Renumbered(q)' :
          t \in Renumbered(from(q)) /\ newIds'[q][t] = newIds[from(q)][t] /\ q # p
    BY <1>0, <1>9, <1>10, <1>13, <1>14, Zenon
  <2>5. \A q, r \in Procs : \A t \in Kept(q)' : t \in Kept(r)' /\ from(q) = from(r) => q = r
    BY <1>13, <1>14, Zenon
  <2>6. \A q, r \in Procs : q # p /\ r # p /\ from(q) = from(r) => q = r
    OBVIOUS
  <2> HIDE DEF from
  <2>7. \A q \in Procs : \A t \in Kept(q)' : guid'[q][t] < lastStateId'
    BY <1>0, <2>1, <2>2, <2>3 DEF ClaimsAreDisjoint
  <2>8. \A q \in Procs : \A t \in Renumbered(q)' : newIds'[q][t] < lastStateId'
    BY <1>0, <2>1, <2>2, <2>4 DEF ClaimsAreDisjoint
  <2>9. \A q, r \in Procs : \A t \in Kept(q)', u \in Kept(r)' :
          guid'[q][t] = guid'[r][u] => q = r /\ t = u
    BY <2>1, <2>2, <2>3, <2>5 DEF ClaimsAreDisjoint
  <2>10. \A q, r \in Procs : \A t \in Renumbered(q)', u \in Renumbered(r)' :
           newIds'[q][t] = newIds'[r][u] => q = r /\ t = u
    BY <2>1, <2>2, <2>4, <2>6 DEF ClaimsAreDisjoint
  <2>11. \A q, r \in Procs : \A t \in Kept(q)', u \in Renumbered(r)' : guid'[q][t] # newIds'[r][u]
    BY <2>1, <2>2, <2>3, <2>4 DEF ClaimsAreDisjoint
  <2> QED BY <2>7, <2>8, <2>9, <2>10, <2>11, Zenon DEF ClaimsAreDisjoint
<1>19. EveryGuidIsKept'
  <2>1. ASSUME NEW g \in toExplore
        PROVE  \E q \in Procs : \E t \in Kept(q)' : guid'[q][t] = g
    <3>1. PICK q \in Procs : \E t \in Kept(q) : guid[q][t] = g
      BY Zenon DEF BalanceInv, EveryGuidIsKept
    <3>2. PICK t \in Kept(q) : guid[q][t] = g
      BY <3>1, Zenon
    <3>3. CASE q = p /\ t \notin parentSet[p]
      BY <3>2, <3>3, <1>10, <1>12, <1>14, Zenon
    <3>4. CASE q = p /\ t \in parentSet[p]
      BY <3>2, <3>4, <1>11, <1>13, Zenon
    <3>5. CASE q # p
      BY <3>2, <3>5, <1>9, <1>12, Zenon
    <3> QED BY <3>3, <3>4, <3>5, Zenon
  <2> QED BY <1>0, <2>1, Zenon DEF EveryGuidIsKept
<1>20. \A q \in Procs : PhaseMatchesPc(q)' /\ SplitIsComplete(q)'
  BY <1>9, <1>16, <1>17, Zenon
<1> QED BY <1>0, <1>7, <1>18, <1>19, <1>20, Zenon DEF BalanceInv

\* Each process drops exactly what the other claims; the child's reserved numbers
\* become the guids of its common states.
LEMMA DropOtherStatesStep ==
  ASSUME BalanceInv, IInv', NEW p \in Procs, DropOtherStates(p)
  PROVE  BalanceInv'
<1> DEFINE mine == IF phase[p] = "child" THEN childSet[p] ELSE parentSet[p]
           split == parentSet[p] \cup childSet[p]
           renamed == IF phase[p] = "child" THEN Common(p) ELSE {}
<1>0. /\ lastStateId \in Nat /\ lastStateId > 0 /\ lastStateId' = lastStateId
      /\ phase[p] \in {"parent", "child"} /\ pc[p] = "running"
      /\ NoIds \in [StateIds -> StateIds] /\ 0 \in StateIds
      /\ UNCHANGED <<pc, pinned>>
  BY ClaimTypes, Zenon DEF DropOtherStates, NoIds, poolVars
<1>1. /\ Unnumbered(p) = {} /\ split = states[p] /\ pinned[p] = {}
      /\ \A t \in states[p] : t < lastStateId
  BY <1>0, Zenon DEF BalanceInv, SplitIsComplete
<1>2. /\ states \in [Procs -> SUBSET StateIds] /\ guid \in [Procs -> [StateIds -> StateIds]]
      /\ phase \in [Procs -> Phase] /\ toExplore \subseteq StateIds
      /\ parentSet \in [Procs -> SUBSET StateIds] /\ childSet \in [Procs -> SUBSET StateIds]
      /\ newIds \in [Procs -> [StateIds -> StateIds]]
  BY Zenon DEF BalanceInv, BalanceTypeOK
<1>3. /\ parentSet' = [parentSet EXCEPT ![p] = {}] /\ childSet' = [childSet EXCEPT ![p] = {}]
      /\ newIds' = [newIds EXCEPT ![p] = NoIds] /\ phase' = [phase EXCEPT ![p] = "idle"]
      /\ states' = [states EXCEPT ![p] = mine]
      /\ toExplore' = toExplore \cup {newIds[p][t] : t \in renamed}
  BY <1>0, <1>1, Zenon DEF DropOtherStates, Return, Enter
<1>4. guid' = [guid EXCEPT ![p] =
                 [t \in StateIds |-> IF t \in split \ mine THEN 0
                                     ELSE IF t \in renamed THEN newIds[p][t] ELSE guid[p][t]]]
  BY <1>2, Zenon DEF DropOtherStates
<1>5. /\ mine \subseteq states[p] /\ renamed \subseteq mine /\ mine \subseteq StateIds
      /\ renamed \subseteq Renumbered(p) /\ Kept(p) = mine \ renamed
  <2>1. /\ Common(p) = parentSet[p] \cap childSet[p] /\ Unnumbered(p) = {}
        /\ states[p] \subseteq StateIds /\ split = states[p]
    BY <1>1, ClaimTypes, Zenon DEF Common
  <2>2. CASE phase[p] = "child"
    <3>1. Kept(p) = childSet[p] \ parentSet[p]
      BY <2>2, Zenon DEF Kept
    <3>2. Common(p) \subseteq Renumbered(p)
      BY <2>1, <2>2, Zenon DEF Renumbered, Unnumbered
    <3> QED BY <2>1, <2>2, <3>1, <3>2, Zenon
  <2>3. CASE phase[p] = "parent"
    <3>1. Kept(p) = parentSet[p]
      BY <2>3, Zenon DEF Kept
    <3> QED BY <2>1, <2>3, <3>1, Zenon
  <2> QED BY <1>0, <2>2, <2>3, Zenon
<1> HIDE DEF mine, renamed, split
<1>6. /\ states'[p] = mine /\ parentSet'[p] = {} /\ childSet'[p] = {} /\ newIds'[p] = NoIds
      /\ phase'[p] = "idle" /\ pc'[p] = "running" /\ pinned'[p] = {}
  BY <1>0, <1>1, <1>2, <1>3, Zenon
<1>7. /\ \A t \in mine \ renamed : guid'[p][t] = guid[p][t]
      /\ \A t \in renamed : guid'[p][t] = newIds[p][t]
  <2>1. guid'[p] = [t \in StateIds |-> IF t \in split \ mine THEN 0
                                       ELSE IF t \in renamed THEN newIds[p][t] ELSE guid[p][t]]
    BY <1>2, <1>4, Zenon
  <2> QED BY <1>5, <2>1, Zenon
<1>8. guid' \in [Procs -> [StateIds -> StateIds]]
  <2>1. newIds[p] \in [StateIds -> StateIds] /\ guid[p] \in [StateIds -> StateIds]
    BY <1>2, Zenon
  <2>2. [t \in StateIds |-> IF t \in split \ mine THEN 0
                            ELSE IF t \in renamed THEN newIds[p][t] ELSE guid[p][t]] \in [StateIds -> StateIds]
    BY <1>0, <2>1, Zenon
  <2> QED BY <1>2, <1>4, <2>2, Zenon
<1>9. /\ states' \in [Procs -> SUBSET StateIds] /\ phase' \in [Procs -> Phase]
      /\ parentSet' \in [Procs -> SUBSET StateIds] /\ childSet' \in [Procs -> SUBSET StateIds]
      /\ newIds' \in [Procs -> [StateIds -> StateIds]]
  BY <1>0, <1>2, <1>3, <1>5, Zenon DEF Phase
<1>10. toExplore' \subseteq StateIds
  <2>1. \A t \in renamed : newIds[p][t] \in StateIds
    BY <1>2, <1>5
  <2> QED BY <1>2, <1>3, <2>1
<1>11. BalanceTypeOK'
  BY <1>0, <1>8, <1>9, <1>10, Zenon DEF IInv, BalanceInv, BalanceTypeOK
<1>12. \A q \in Procs \ {p} : Untouched(q)
  BY <1>0, <1>2, <1>3, <1>4, Zenon DEF Untouched
<1>13. \A q \in Procs \ {p} : /\ Kept(q)' = Kept(q) /\ Renumbered(q)' = Renumbered(q)
                              /\ guid'[q] = guid[q] /\ newIds'[q] = newIds[q]
                              /\ PhaseMatchesPc(q)' /\ SplitIsComplete(q)'
  BY <1>0, <1>12, UntouchedProcess DEF Untouched
<1>14. Kept(p)' = mine /\ Renumbered(p)' = {}
  BY <1>6, Zenon DEF Kept, Renumbered, Common
<1>15. PhaseMatchesPc(p)'
  BY <1>6, Zenon DEF PhaseMatchesPc
<1>16. SplitIsComplete(p)'
  BY <1>0, <1>1, <1>5, <1>6, Zenon DEF SplitIsComplete
<1>17. ClaimsAreDisjoint'
  <2>1. ClaimsAreDisjoint
    BY Zenon DEF BalanceInv
  <2>2. \A q \in Procs : \A t \in Kept(q)' :
          \/ t \in Kept(q) /\ guid'[q][t] = guid[q][t]
          \/ q = p /\ t \in Renumbered(p) /\ guid'[q][t] = newIds[p][t]
    BY <1>5, <1>7, <1>13, <1>14, Zenon
  <2>3. \A q \in Procs : \A t \in Renumbered(q)' :
          q # p /\ t \in Renumbered(q) /\ newIds'[q][t] = newIds[q][t]
    BY <1>13, <1>14, Zenon
  <2>4. \A q \in Procs : \A t \in Kept(q)' : guid'[q][t] < lastStateId'
    BY <1>0, <2>1, <2>2 DEF ClaimsAreDisjoint
  <2>5. \A q \in Procs : \A t \in Renumbered(q)' : newIds'[q][t] < lastStateId'
    BY <1>0, <2>1, <2>3, ZenonT(30) DEF ClaimsAreDisjoint
  <2>6. \A q, r \in Procs : \A t \in Kept(q)', u \in Kept(r)' :
          guid'[q][t] = guid'[r][u] => q = r /\ t = u
    BY <2>1, <2>2 DEF ClaimsAreDisjoint
  <2>7. \A q, r \in Procs : \A t \in Renumbered(q)', u \in Renumbered(r)' :
          newIds'[q][t] = newIds'[r][u] => q = r /\ t = u
    BY <2>1, <2>3 DEF ClaimsAreDisjoint
  <2>8. \A q, r \in Procs : \A t \in Kept(q)', u \in Renumbered(r)' : guid'[q][t] # newIds'[r][u]
    BY <2>1, <2>2, <2>3 DEF ClaimsAreDisjoint
  <2> QED BY <2>4, <2>5, <2>6, <2>7, <2>8, Zenon DEF ClaimsAreDisjoint
<1>18. EveryGuidIsKept'
  <2>1. ASSUME NEW g \in toExplore
        PROVE  \E q \in Procs : \E t \in Kept(q)' : guid'[q][t] = g
    <3>1. PICK q \in Procs : \E t \in Kept(q) : guid[q][t] = g
      BY Zenon DEF BalanceInv, EveryGuidIsKept
    <3> QED BY <3>1, <1>5, <1>7, <1>13, <1>14
  <2>2. ASSUME NEW t \in renamed
        PROVE  \E q \in Procs : \E u \in Kept(q)' : guid'[q][u] = newIds[p][t]
    BY <1>5, <1>7, <1>14, Zenon
  <2> QED BY <1>3, <2>1, <2>2 DEF EveryGuidIsKept
<1>19. \A q \in Procs : PhaseMatchesPc(q)' /\ SplitIsComplete(q)'
  BY <1>13, <1>15, <1>16, Zenon
<1> QED BY <1>0, <1>11, <1>17, <1>18, <1>19, Zenon DEF BalanceInv

-------------------------------------------------------------------------------
(***************************************************************************)
(* The pool itself.                                                        *)
(***************************************************************************)
\* Facts about finite sets and numbers that the proofs below use.  They follow
\* from the library (LibraryFactsHold).
SmallestExists == \A S \in SUBSET Nat : S # {} => \E x \in S : \A y \in S : x <= y
EmptySet == Cardinality({}) = 0
Singleton == \A x : Cardinality({x}) = 1
Counted == \A S : IsFiniteSet(S) => Cardinality(S) \in Nat /\ (Cardinality(S) = 0 <=> S = {})
Interval == \A n \in Nat : IsFiniteSet(0 .. n - 1) /\ Cardinality(0 .. n - 1) = n
Subset == \A S : \A T \in SUBSET S :
            IsFiniteSet(S) => IsFiniteSet(T) /\ Cardinality(T) <= Cardinality(S)
AddElement == \A S, x : IsFiniteSet(S) /\ x \notin S => Cardinality(S \cup {x}) = Cardinality(S) + 1
RemoveElement ==
  \A S, x : IsFiniteSet(S) /\ x \in S =>
              IsFiniteSet(S \ {x}) /\ Cardinality(S \ {x}) = Cardinality(S) - 1

LibraryFacts ==
  SmallestExists /\ EmptySet /\ Singleton /\ Counted /\ Interval /\ Subset /\ AddElement /\ RemoveElement

\* The loop of S2E::fork stops at the first free slot, or at MaxInstances.
LEMMA FirstFreeFact ==
  ASSUME LibraryFacts
  PROVE  /\ FirstFree \in 0 .. MaxInstances
         /\ FirstFree \in Usable => FirstFree \notin Occupied
         /\ \A j \in 0 .. FirstFree - 1 : j \in Occupied
<1> DEFINE S == {i \in 0 .. MaxInstances : i \in Usable => i \notin Occupied}
<1>0. MaxInstances \in Nat
  BY PoolAssumption
<1>1. S \in SUBSET Nat /\ MaxInstances \in S
  BY <1>0 DEF Usable
<1>2. PICK x \in S : \A y \in S : x <= y
  BY <1>1, Zenon DEF LibraryFacts, SmallestExists
<1>3. x \in 0 .. MaxInstances /\ (x \in Usable => x \notin Occupied)
  BY <1>2, Zenon
<1>4. ASSUME NEW j \in 0 .. x - 1
      PROVE  j \in Occupied
  <2>1. j \in 0 .. MaxInstances /\ ~(x <= j)
    BY <1>0, <1>3
  <2> QED BY <1>2, <2>1, Zenon
<1> QED BY <1>3, <1>4, Zenon DEF FirstFree

LEMMA FiniteFacts ==
  ASSUME LibraryFacts
  PROVE  /\ IsFiniteSet(Occupied) /\ Cardinality(Occupied) \in Nat
         /\ IsFiniteSet(Pending) /\ Cardinality(Pending) \in Nat
<1>1. IsFiniteSet(Slots)
  BY PoolAssumption, Zenon DEF Slots, LibraryFacts, Interval
<1>2. Occupied \in SUBSET Slots /\ Pending \in SUBSET Procs
  BY Zenon DEF Occupied, Pending
<1>3. IsFiniteSet(Occupied) /\ IsFiniteSet(Pending)
  BY <1>1, <1>2, PoolAssumption, Zenon DEF LibraryFacts, Subset
<1> QED BY <1>3, Zenon DEF LibraryFacts, Counted

LEMMA UsableSlots == Usable \subseteq Slots
  BY PoolAssumption DEF Usable, Slots

\* A child that looks for a slot finds one: its own reservation is part of the
\* count, so the slots in use are fewer than MaxInstances.
LEMMA FreeSlotExists ==
  ASSUME LibraryFacts, CountIsExact, NEW p \in Pending
  PROVE  FirstFree \in Usable /\ FirstFree < MaxInstances
<1>0. MaxInstances \in Nat /\ MaxInstances >= 1
  BY PoolAssumption
<1>1. SUFFICES ASSUME FirstFree = MaxInstances PROVE FALSE
  BY <1>0, FirstFreeFact DEF Usable
<1>2. Usable \in SUBSET Occupied
  BY <1>0, <1>1, FirstFreeFact, Zenon DEF Usable
<1>3. Cardinality(Usable) = MaxInstances
  BY <1>0, Zenon DEF LibraryFacts, Interval, Usable
<1>4. Cardinality(Usable) <= Cardinality(Occupied)
  BY <1>2, FiniteFacts, Zenon DEF LibraryFacts, Subset
<1>5. Cardinality(Pending) # 0
  BY FiniteFacts, Zenon DEF LibraryFacts, Counted
<1> QED BY <1>0, <1>3, <1>4, <1>5, FiniteFacts DEF CountIsExact

-------------------------------------------------------------------------------
(***************************************************************************)
(* One lemma per action.  Each starts from what the action does to the     *)
(* sets Registered, Pending and Occupied.                                  *)
(***************************************************************************)
LEMMA ForkReserveStep ==
  ASSUME LibraryFacts, IInv, NEW p \in Procs, ForkReserve(p)
  PROVE  IInv'
<1>0. /\ currentInstanceCount \in Nat /\ lastFileId \in Nat /\ MaxInstances \in Nat
      /\ pc \in [Procs -> PC] /\ newProcessId \in [Procs -> Nat]
      /\ pc[p] = "running" /\ currentInstanceCount # MaxInstances
      /\ newProcessId' = [newProcessId EXCEPT ![p] = lastFileId]
      /\ lastFileId' = lastFileId + 1
      /\ currentInstanceCount' = currentInstanceCount + 1
      /\ UNCHANGED <<instanceIds, instanceId, instanceIndex, directories>>
  BY PoolAssumption DEF IInv, PoolTypeOK, ForkReserve
<1>1. p \in Registered /\ p \notin Pending
  BY <1>0, Zenon DEF Registered, Pending
<1>2. Cardinality(Occupied) # 0
  <2>1. instanceIndex[p] \in Slots /\ instanceId[p] \in Nat /\ instanceIds[instanceIndex[p]] = instanceId[p]
    BY <1>1, UsableSlots, Zenon DEF IInv, PoolTypeOK, SlotsMatchInstances
  <2>2. instanceIndex[p] \in Occupied
    BY <2>1, PoolAssumption, Zenon DEF Occupied
  <2> QED BY <2>2, FiniteFacts, Zenon DEF LibraryFacts, Counted
<1>3. currentInstanceCount > 0
  BY <1>2, FiniteFacts DEF IInv, CountIsExact
<1>4. pc' = [pc EXCEPT ![p] = "forking"]
  BY <1>3, Zenon DEF ForkReserve, Check, Goto
<1>5. Registered' = Registered /\ Pending' = Pending \cup {p} /\ Occupied' = Occupied
  BY <1>0, <1>4, Zenon DEF Registered, Pending, Occupied
<1>6. PoolTypeOK'
  BY <1>0, <1>4 DEF IInv, PoolTypeOK, PC
<1>7. NoAssertionFails'
  BY <1>0, <1>4, Zenon DEF IInv, NoAssertionFails
<1>8. CountIsExact'
  <2>1. Cardinality(Pending') = Cardinality(Pending) + 1
    BY <1>1, <1>5, FiniteFacts, Zenon DEF LibraryFacts, AddElement
  <2> QED BY <1>0, <1>5, <2>1, FiniteFacts DEF IInv, CountIsExact
<1>9. SlotsMatchInstances'
  BY <1>0, <1>5, ZenonT(30) DEF IInv, SlotsMatchInstances
<1>10. Fresh'
  <2>1. /\ newProcessId'[p] = lastFileId
        /\ \A q \in Procs \ {p} : newProcessId'[q] = newProcessId[q]
    BY <1>0, Zenon
  <2>2. \A q \in Pending : q \in Procs /\ q # p /\ newProcessId[q] \in Nat
    BY <1>0, <1>1, Zenon DEF Pending
  <2>3. \A q \in Registered : q \in Procs /\ instanceId[q] \in Nat
    BY Zenon DEF IInv, PoolTypeOK, Registered
  <2>4. directories \subseteq Nat
    BY Zenon DEF IInv, PoolTypeOK
  <2>5. \A q \in Procs : pc'[q] = "claimed" => pc[q] = "claimed"
    BY <1>0, <1>4, Zenon
  <2>6. Fresh
    BY Zenon DEF IInv
  <2>7. \A q \in Pending' : newProcessId'[q] < lastFileId' /\ newProcessId'[q] \notin directories'
    BY <1>0, <1>5, <2>1, <2>2, <2>4, <2>6 DEF Fresh
  <2>8. \A q \in Pending', r \in Registered' : newProcessId'[q] # instanceId'[r]
    BY <1>0, <1>5, <2>1, <2>2, <2>3, <2>6 DEF Fresh
  <2>9. \A q, r \in Pending' : q # r => newProcessId'[q] # newProcessId'[r]
    BY <1>0, <1>5, <2>1, <2>2, <2>6 DEF Fresh
  <2>10. /\ \A d \in directories' : d < lastFileId'
         /\ \A q \in Registered' : instanceId'[q] < lastFileId'
    BY <1>0, <1>5, <2>3, <2>4, <2>6 DEF Fresh
  <2>11. \A q \in Procs : pc'[q] = "claimed" => instanceId'[q] \notin directories'
    BY <1>0, <2>5, <2>6, Zenon DEF Fresh
  <2> QED BY <2>7, <2>8, <2>9, <2>10, <2>11, Zenon DEF Fresh
<1> QED BY <1>6, <1>7, <1>8, <1>9, <1>10, Zenon DEF IInv

LEMMA ForkFailedStep ==
  ASSUME LibraryFacts, IInv, NEW p \in Procs, ForkFailed(p)
  PROVE  IInv'
<1>0. /\ currentInstanceCount \in Nat /\ MaxInstances \in Nat
      /\ pc \in [Procs -> PC] /\ pc[p] = "forking"
      /\ currentInstanceCount' = currentInstanceCount - 1
      /\ UNCHANGED <<lastFileId, instanceIds, newProcessId, instanceId, instanceIndex, directories>>
  BY PoolAssumption DEF IInv, PoolTypeOK, ForkFailed
<1>1. p \in Registered /\ p \in Pending
  BY <1>0, Zenon DEF Registered, Pending
<1>2. Cardinality(Occupied) # 0
  <2>1. instanceIndex[p] \in Slots /\ instanceId[p] \in Nat /\ instanceIds[instanceIndex[p]] = instanceId[p]
    BY <1>1, UsableSlots, Zenon DEF IInv, PoolTypeOK, SlotsMatchInstances
  <2>2. instanceIndex[p] \in Occupied
    BY <2>1, PoolAssumption, Zenon DEF Occupied
  <2> QED BY <2>2, FiniteFacts, Zenon DEF LibraryFacts, Counted
<1>3. Cardinality(Pending) # 0
  BY <1>1, FiniteFacts, Zenon DEF LibraryFacts, Counted
<1>4. currentInstanceCount > 1
  BY <1>2, <1>3, FiniteFacts DEF IInv, CountIsExact
<1>5. pc' = [pc EXCEPT ![p] = "running"]
  BY <1>4, Zenon DEF ForkFailed, Check, Goto
<1>6. Registered' = Registered /\ Pending' = Pending \ {p} /\ Occupied' = Occupied
  BY <1>0, <1>5, Zenon DEF Registered, Pending, Occupied
<1>7. PoolTypeOK'
  BY <1>0, <1>4, <1>5 DEF IInv, PoolTypeOK, PC
<1>8. NoAssertionFails'
  BY <1>0, <1>5, Zenon DEF IInv, NoAssertionFails
<1>9. CountIsExact'
  <2>1. Cardinality(Pending') = Cardinality(Pending) - 1
    BY <1>1, <1>6, FiniteFacts, Zenon DEF LibraryFacts, RemoveElement
  <2> QED BY <1>0, <1>6, <2>1, FiniteFacts DEF IInv, CountIsExact
<1>10. SlotsMatchInstances'
  BY <1>0, <1>6, ZenonT(30) DEF IInv, SlotsMatchInstances
<1>11. Fresh'
  <2>1. \A q \in Procs : pc'[q] = "claimed" => pc[q] = "claimed"
    BY <1>0, <1>5, Zenon
  <2> QED BY <1>0, <1>6, <2>1, Zenon DEF IInv, Fresh
<1> QED BY <1>7, <1>8, <1>9, <1>10, <1>11, Zenon DEF IInv

LEMMA ForkSucceededStep ==
  ASSUME LibraryFacts, IInv, NEW p \in Procs, NEW c \in Procs, ForkSucceeded(p, c)
  PROVE  IInv'
<1>0. /\ pc \in [Procs -> PC] /\ newProcessId \in [Procs -> Nat]
      /\ instanceId \in [Procs -> Nat] /\ instanceIndex \in [Procs -> Usable]
      /\ pc[p] = "forking" /\ pc[c] = "unborn" /\ p # c
      /\ newProcessId' = [newProcessId EXCEPT ![c] = newProcessId[p]]
      /\ instanceId' = [instanceId EXCEPT ![c] = instanceId[p]]
      /\ instanceIndex' = [instanceIndex EXCEPT ![c] = instanceIndex[p]]
      /\ UNCHANGED <<currentInstanceCount, lastFileId, instanceIds, directories>>
  BY Zenon DEF IInv, PoolTypeOK, ForkSucceeded
<1>1. /\ pc' \in [Procs -> PC] /\ pc'[p] = "running" /\ pc'[c] = "starting"
      /\ \A q \in Procs \ {p, c} : pc'[q] = pc[q]
  <2> DEFINE half == [pc EXCEPT ![p] = "running"]
  <2>1. /\ half \in [Procs -> PC] /\ half[p] = "running"
        /\ \A q \in Procs \ {p} : half[q] = pc[q]
    BY <1>0, Zenon DEF PC
  <2>2. pc' = [half EXCEPT ![c] = "starting"]
    BY Zenon DEF ForkSucceeded
  <2> HIDE DEF half
  <2> QED BY <1>0, <2>1, <2>2, Zenon DEF PC
<1>2. /\ Registered' = Registered /\ Occupied' = Occupied
      /\ Pending' = (Pending \ {p}) \cup {c}
      /\ p \in Pending /\ c \notin Pending /\ c \notin Registered /\ p \in Registered
  BY <1>0, <1>1 DEF Registered, Pending, Occupied
<1>3. PoolTypeOK'
  BY <1>0, <1>1, Zenon DEF IInv, PoolTypeOK
<1>4. NoAssertionFails'
  BY <1>1, Zenon DEF IInv, NoAssertionFails
<1>5. CountIsExact'
  <2>1. IsFiniteSet(Pending \ {p}) /\ Cardinality(Pending \ {p}) = Cardinality(Pending) - 1
    BY <1>2, FiniteFacts, Zenon DEF LibraryFacts, RemoveElement
  <2>2. Cardinality((Pending \ {p}) \cup {c}) = Cardinality(Pending \ {p}) + 1
    BY <1>2, <2>1, Zenon DEF LibraryFacts, AddElement
  <2>3. Cardinality(Pending') = Cardinality(Pending)
    BY <1>2, <2>1, <2>2, FiniteFacts
  <2> QED BY <1>0, <1>2, <2>3, Zenon DEF IInv, CountIsExact
<1>6. \A q \in Procs \ {c} : /\ instanceId'[q] = instanceId[q]
                             /\ instanceIndex'[q] = instanceIndex[q]
                             /\ newProcessId'[q] = newProcessId[q]
  BY <1>0, Zenon
<1>7. newProcessId'[c] = newProcessId[p]
  BY <1>0, Zenon
<1>8. \A q \in Registered : q \in Procs \ {c}
  BY <1>2, Zenon DEF Registered
<1>9. SlotsMatchInstances'
  BY <1>0, <1>2, <1>6, <1>8 DEF IInv, SlotsMatchInstances
<1>10. Fresh'
  <2>1. \A q \in Procs : pc'[q] = "claimed" => pc[q] = "claimed" /\ q # c
    BY <1>0, <1>1, Zenon
  <2>2. \A q \in Pending : q \in Procs \ {c}
    BY <1>2, Zenon DEF Pending
  <2> QED BY <1>0, <1>2, <1>6, <1>7, <1>8, <2>1, <2>2 DEF IInv, Fresh
<1> QED BY <1>3, <1>4, <1>5, <1>9, <1>10, Zenon DEF IInv

LEMMA ClaimSlotStep ==
  ASSUME LibraryFacts, IInv, NEW p \in Procs, ClaimSlot(p)
  PROVE  IInv'
<1> DEFINE f == FirstFree
<1>0a. f \in Usable /\ f < MaxInstances /\ f \in Slots /\ f \notin Occupied
  <2>1. p \in Pending
    BY Zenon DEF ClaimSlot, Pending
  <2> QED BY <2>1, FreeSlotExists, FirstFreeFact, UsableSlots, Zenon DEF IInv
<1>0. /\ pc \in [Procs -> PC] /\ newProcessId \in [Procs -> Nat]
      /\ instanceId \in [Procs -> Nat] /\ instanceIndex \in [Procs -> Usable]
      /\ instanceIds \in [Slots -> Nat \cup {NoInstance}]
      /\ pc[p] = "starting"
      /\ instanceIds' = [i \in Slots |-> IF i = f THEN newProcessId[p] ELSE instanceIds[i]]
      /\ instanceIndex' = [instanceIndex EXCEPT ![p] = f]
      /\ instanceId' = [instanceId EXCEPT ![p] = newProcessId[p]]
      /\ UNCHANGED <<currentInstanceCount, lastFileId, newProcessId, directories>>
  BY <1>0a, Zenon DEF IInv, PoolTypeOK, ClaimSlot
<1>1. p \in Pending /\ p \notin Registered
  BY <1>0, Zenon DEF Pending, Registered
<1>3. pc' = [pc EXCEPT ![p] = "claimed"]
  BY <1>0a, Zenon DEF ClaimSlot, Check, Goto
<1> HIDE DEF f
<1>4. Registered' = Registered \cup {p} /\ Pending' = Pending \ {p}
  BY <1>0, <1>3, Zenon DEF Registered, Pending
<1>5. Occupied' = Occupied \cup {f}
  <2>1. newProcessId[p] # NoInstance
    BY <1>0, PoolAssumption, Zenon
  <2> QED BY <1>0, <1>0a, <2>1, Zenon DEF Occupied
<1>6. PoolTypeOK'
  BY <1>0, <1>0a, <1>3, Zenon DEF IInv, PoolTypeOK, PC
<1>7. NoAssertionFails'
  BY <1>0, <1>3, Zenon DEF IInv, NoAssertionFails
<1>8. CountIsExact'
  <2>1. Cardinality(Pending') = Cardinality(Pending) - 1
    BY <1>1, <1>4, FiniteFacts, Zenon DEF LibraryFacts, RemoveElement
  <2>2. Cardinality(Occupied') = Cardinality(Occupied) + 1
    BY <1>0a, <1>5, FiniteFacts, Zenon DEF LibraryFacts, AddElement
  <2> QED BY <1>0, <2>1, <2>2, FiniteFacts DEF IInv, CountIsExact
<1>9. /\ instanceId'[p] = newProcessId[p] /\ instanceIndex'[p] = f
      /\ \A q \in Registered : instanceId'[q] = instanceId[q] /\ instanceIndex'[q] = instanceIndex[q] /\ q # p
  BY <1>0, <1>1, Zenon DEF Registered
<1>10. /\ \A q \in Registered : instanceIndex[q] \in Occupied
       /\ \A i \in Occupied : i # f /\ instanceIds'[i] = instanceIds[i]
       /\ instanceIds'[f] = newProcessId[p]
  <2>1. \A q \in Registered : instanceIndex[q] \in Slots /\ instanceIds[instanceIndex[q]] \in Nat
    BY <1>0, UsableSlots DEF IInv, SlotsMatchInstances, Registered
  <2> QED BY <1>0, <1>0a, <2>1, PoolAssumption, Zenon DEF Occupied
<1>11. SlotsMatchInstances'
  <2>1. \A q \in Registered' : instanceIds'[instanceIndex'[q]] = instanceId'[q]
    <3>1. \A q \in Registered : instanceIds[instanceIndex[q]] = instanceId[q]
      BY Zenon DEF IInv, SlotsMatchInstances
    <3> QED BY <1>4, <1>9, <1>10, <3>1, SMTT(30)
  <2>2. \A q \in Registered : instanceIndex'[q] # instanceIndex'[p] /\ instanceId'[q] # instanceId'[p]
    <3>1. \A q \in Registered : newProcessId[p] # instanceId[q]
      BY <1>1, Zenon DEF IInv, Fresh
    <3> QED BY <1>9, <1>10, <3>1, SMTT(30)
  <2>3. \A q, r \in Registered' : q # r => instanceIndex'[q] # instanceIndex'[r] /\ instanceId'[q] # instanceId'[r]
    <3>1. \A q, r \in Registered : q # r => instanceIndex[q] # instanceIndex[r] /\ instanceId[q] # instanceId[r]
      BY Zenon DEF IInv, SlotsMatchInstances
    <3> QED BY <1>4, <1>9, <2>2, <3>1
  <2>4. \A i \in Occupied' : \E q \in Registered' : instanceIndex'[q] = i
    BY <1>4, <1>5, <1>9 DEF IInv, SlotsMatchInstances
  <2> QED BY <2>1, <2>3, <2>4, Zenon DEF SlotsMatchInstances
<1>12. Fresh'
  <2>1. \A q \in Procs : pc'[q] = "claimed" => q = p \/ (pc[q] = "claimed" /\ instanceId'[q] = instanceId[q])
    BY <1>0, <1>3, Zenon
  <2> QED BY <1>0, <1>1, <1>4, <1>9, <2>1 DEF IInv, Fresh
<1> QED BY <1>6, <1>7, <1>8, <1>11, <1>12, Zenon DEF IInv

LEMMA InitOutputDirectoryStep ==
  ASSUME LibraryFacts, IInv, NEW p \in Procs, InitOutputDirectory(p)
  PROVE  IInv'
<1>0. /\ pc \in [Procs -> PC] /\ instanceId \in [Procs -> Nat] /\ pc[p] = "claimed"
      /\ directories' = directories \cup {instanceId[p]}
      /\ UNCHANGED <<currentInstanceCount, lastFileId, instanceIds, newProcessId, instanceId, instanceIndex>>
  BY Zenon DEF IInv, PoolTypeOK, InitOutputDirectory
<1>1. instanceId[p] \notin directories
  BY <1>0, Zenon DEF IInv, Fresh
<1>2. pc' = [pc EXCEPT ![p] = "running"]
  BY <1>1, Zenon DEF InitOutputDirectory, Check, Goto
<1>3. Registered' = Registered /\ Pending' = Pending /\ Occupied' = Occupied /\ p \in Registered
  BY <1>0, <1>2, Zenon DEF Registered, Pending, Occupied
<1>4. PoolTypeOK'
  BY <1>0, <1>2, Zenon DEF IInv, PoolTypeOK, PC
<1>5. NoAssertionFails'
  BY <1>0, <1>2, Zenon DEF IInv, NoAssertionFails
<1>6. CountIsExact' /\ SlotsMatchInstances'
  BY <1>0, <1>3, ZenonT(30) DEF IInv, CountIsExact, SlotsMatchInstances
<1>7. Fresh'
  <2>1. \A q \in Procs : pc'[q] = "claimed" => pc[q] = "claimed" /\ q # p /\ q \in Registered
    BY <1>0, <1>2, Zenon DEF Registered
  <2>2. \A q \in Registered : q # p => instanceId[q] # instanceId[p]
    BY <1>3, Zenon DEF IInv, SlotsMatchInstances
  <2> QED BY <1>0, <1>3, <2>1, <2>2, Zenon DEF IInv, Fresh
<1> QED BY <1>4, <1>5, <1>6, <1>7, Zenon DEF IInv

LEMMA TerminateStep ==
  ASSUME LibraryFacts, IInv, NEW p \in Procs, Terminate(p)
  PROVE  IInv'
<1> DEFINE k == instanceIndex[p]
<1>0. /\ pc \in [Procs -> PC] /\ currentInstanceCount \in Nat /\ MaxInstances \in Nat
      /\ instanceIndex \in [Procs -> Usable] /\ instanceId \in [Procs -> Nat]
      /\ instanceIds \in [Slots -> Nat \cup {NoInstance}]
      /\ pc[p] = "running"
      /\ instanceIds' = [instanceIds EXCEPT ![k] = NoInstance]
      /\ currentInstanceCount' = currentInstanceCount - 1
      /\ UNCHANGED <<lastFileId, newProcessId, instanceId, instanceIndex, directories>>
  BY PoolAssumption DEF IInv, PoolTypeOK, Terminate
<1>1. p \in Registered /\ p \notin Pending
  BY <1>0, Zenon DEF Registered, Pending
<1>2. k \in Slots /\ instanceIds[k] = instanceId[p] /\ k \in Occupied
  <2>1. k \in Slots /\ instanceIds[k] = instanceId[p]
    BY <1>0, <1>1, UsableSlots, Zenon DEF IInv, SlotsMatchInstances
  <2>2. instanceId[p] # NoInstance
    BY <1>0, PoolAssumption, Zenon
  <2> QED BY <2>1, <2>2, Zenon DEF Occupied
<1>3. currentInstanceCount > 0
  <2>1. Cardinality(Occupied) # 0
    BY <1>2, FiniteFacts, Zenon DEF LibraryFacts, Counted
  <2> QED BY <2>1, FiniteFacts DEF IInv, CountIsExact
<1>4. pc' = [pc EXCEPT ![p] = "dead"]
  BY <1>2, <1>3, Zenon DEF Terminate, Check, Goto
<1> HIDE DEF k
<1>5. Registered' = Registered \ {p} /\ Pending' = Pending /\ Occupied' = Occupied \ {k}
  BY <1>0, <1>2, <1>4, Zenon DEF Registered, Pending, Occupied
<1>6. PoolTypeOK'
  BY <1>0, <1>2, <1>3, <1>4 DEF IInv, PoolTypeOK, PC
<1>7. NoAssertionFails'
  BY <1>0, <1>4, Zenon DEF IInv, NoAssertionFails
<1>8. CountIsExact'
  <2>1. Cardinality(Occupied') = Cardinality(Occupied) - 1
    BY <1>2, <1>5, FiniteFacts, Zenon DEF LibraryFacts, RemoveElement
  <2> QED BY <1>0, <1>5, <2>1, FiniteFacts DEF IInv, CountIsExact
<1>9. SlotsMatchInstances'
  <2>1. \A q \in Registered' : instanceIndex[q] # k /\ instanceIndex[q] \in Slots
    BY <1>0, <1>1, <1>5, UsableSlots DEF k, IInv, SlotsMatchInstances, Registered
  <2>2. \A q \in Registered' : instanceIds'[instanceIndex[q]] = instanceIds[instanceIndex[q]]
    BY <1>0, <2>1, Zenon
  <2> QED BY <1>0, <1>1, <1>5, <2>2 DEF k, IInv, SlotsMatchInstances
<1>10. Fresh'
  <2>1. \A q \in Procs : pc'[q] = "claimed" => pc[q] = "claimed"
    BY <1>0, <1>4, Zenon
  <2> QED BY <1>0, <1>5, <2>1 DEF IInv, Fresh
<1> QED BY <1>6, <1>7, <1>8, <1>9, <1>10, Zenon DEF IInv

\* Steps that touch none of the state the invariant is about.
LEMMA FrameStep ==
  ASSUME IInv,
         UNCHANGED <<currentInstanceCount, lastFileId, instanceIds, pc, newProcessId,
                     instanceId, instanceIndex, directories>>
  PROVE  IInv'
<1>1. Registered' = Registered /\ Pending' = Pending /\ Occupied' = Occupied
  BY Zenon DEF Registered, Pending, Occupied
<1> QED BY <1>1 DEF IInv, PoolTypeOK, NoAssertionFails, CountIsExact, SlotsMatchInstances, Fresh

LEMMA PoolInitIInv == ASSUME LibraryFacts, PoolInit PROVE IInv
<1>1. 0 \in Slots /\ 0 \in Usable /\ Root \in Procs /\ MaxInstances \in Nat /\ MaxInstances >= 1
  BY PoolAssumption DEF Slots, Usable
<1>2. PoolTypeOK
  BY <1>1 DEF PoolInit, PoolTypeOK, PC
<1>3. NoAssertionFails
  BY Zenon DEF PoolInit, NoAssertionFails
<1>4. Occupied = {0} /\ Pending = {} /\ Registered = {Root}
  BY <1>1, PoolAssumption DEF PoolInit, Occupied, Pending, Registered
<1>5. CountIsExact
  <2>1. Cardinality({0}) = 1 /\ Cardinality({}) = 0
    BY Zenon DEF LibraryFacts, Singleton, EmptySet
  <2>2. Cardinality(Occupied) = 1 /\ Cardinality(Pending) = 0
    BY <1>4, <2>1, Zenon
  <2> QED BY <1>1, <2>2 DEF PoolInit, CountIsExact
<1>6. SlotsMatchInstances
  BY <1>1, <1>4, Zenon DEF PoolInit, SlotsMatchInstances
<1>7. Fresh
  BY <1>1, <1>4 DEF PoolInit, Fresh
<1> QED BY <1>2, <1>3, <1>5, <1>6, <1>7, Zenon DEF IInv

LEMMA PoolNextStep == ASSUME LibraryFacts, IInv, [Next]_poolVars PROVE IInv'
<1>1. CASE UNCHANGED poolVars
  BY <1>1, FrameStep, Zenon DEF poolVars
<1> QED BY <1>1, ForkReserveStep, ForkFailedStep, ForkSucceededStep, ClaimSlotStep,
           InitOutputDirectoryStep, TerminateStep DEF Next

\* doLoadBalancing only uses the instance table through S2E::fork and S2E::~S2E:
\* each of its steps is a step of the pool or leaves the pool alone.
LEMMA BalanceImplementsPool == BalanceNext => [Next]_poolVars
<1> SUFFICES ASSUME BalanceNext PROVE Next \/ UNCHANGED poolVars
  OBVIOUS
<1>1. PICK p \in Procs :
        \/ \E s \in states[p] : StateFork(p, s) \/ TerminateState(p, s)
        \/ \E keep, give \in SUBSET states[p] : BalanceStart(p, keep, give)
        \/ \E s \in Common(p) : ComputeNewStateGuid(p, s)
        \/ BalanceRefused(p)
        \/ BalanceReserve(p)
        \/ BalanceFailed(p)
        \/ \E c \in Procs : BalanceForked(p, c)
        \/ ChildStarts(p)
        \/ DropOtherStates(p)
        \/ ProcessExit(p)
  BY Zenon DEF BalanceNext
<1>2. CASE BalanceReserve(p) \/ BalanceFailed(p) \/ (\E c \in Procs : BalanceForked(p, c))
             \/ ChildStarts(p) \/ ProcessExit(p)
  BY <1>2, Zenon DEF Next, BalanceReserve, BalanceFailed, BalanceForked, ChildStarts, ProcessExit
<1>3. CASE (\E s \in states[p] : StateFork(p, s) \/ TerminateState(p, s))
             \/ (\E keep, give \in SUBSET states[p] : BalanceStart(p, keep, give))
             \/ (\E s \in Common(p) : ComputeNewStateGuid(p, s))
  BY <1>3, Zenon DEF StateFork, TerminateState, BalanceStart, ComputeNewStateGuid
<1>4. CASE BalanceRefused(p) \/ DropOtherStates(p)
  BY <1>4, Zenon DEF BalanceRefused, DropOtherStates
<1> QED
  BY <1>1, <1>2, <1>3, <1>4, Zenon

LEMMA BalanceInitInv == ASSUME BalanceInit, PoolTypeOK PROVE BalanceInv
<1>0. MaxStateId \in Nat /\ MaxStateId > 0 /\ 0 \in StateIds /\ Root \in Procs
  BY BalanceAssumption, PoolAssumption DEF StateIds
<1>1. NoIds \in [StateIds -> StateIds]
  BY <1>0, Zenon DEF NoIds
<1>3. BalanceTypeOK
  BY <1>0, <1>1 DEF BalanceInit, BalanceTypeOK, Phase
<1>4. \A p \in Procs : PhaseMatchesPc(p)
  BY <1>0, Zenon DEF BalanceInit, PoolInit, PhaseMatchesPc
<1>5. \A p \in Procs : SplitIsComplete(p)
  BY <1>0 DEF BalanceInit, SplitIsComplete
<1>6. \A p \in Procs : Kept(p) = (IF p = Root THEN {0} ELSE {}) /\ Renumbered(p) = {}
  BY Zenon DEF BalanceInit, Kept, Renumbered, Common
<1>7. guid[Root][0] = 0 /\ lastStateId = 1 /\ toExplore = {0}
  BY <1>0, Zenon DEF BalanceInit, NoIds
<1>8. ClaimsAreDisjoint
  BY <1>6, <1>7 DEF ClaimsAreDisjoint
<1>9. EveryGuidIsKept
  BY <1>0, <1>6, <1>7, Zenon DEF EveryGuidIsKept
<1> QED BY <1>3, <1>4, <1>5, <1>7, <1>8, <1>9 DEF BalanceInv

LEMMA BalanceNextStep == BalanceInv /\ IInv' /\ [BalanceNext]_vars => BalanceInv'
<1> SUFFICES ASSUME BalanceInv, IInv', [BalanceNext]_vars PROVE BalanceInv'
  OBVIOUS
<1>1. CASE UNCHANGED vars
  <2>1. UNCHANGED <<lastStateId, states, guid, pinned, parentSet, childSet, newIds, toExplore, phase, pc>>
    BY <1>1, Zenon DEF vars, balanceVars, poolVars
  <2>2. BalanceTypeOK'
    BY <2>1, Zenon DEF IInv, BalanceInv, BalanceTypeOK
  <2>3. Root \in Procs /\ \A q \in Procs : Untouched(q)
    BY <2>1, PoolAssumption, Zenon DEF Untouched
  <2>4. lastStateId \in Nat /\ lastStateId <= lastStateId'
    BY <2>1, <2>3, ClaimTypes
  <2> QED BY <2>1, <2>2, <2>3, <2>4, UntouchedProcess, OneProcessStep, Zenon
<1>2. CASE BalanceNext
  <2>1. PICK p \in Procs :
          \/ \E s \in states[p] : StateFork(p, s) \/ TerminateState(p, s)
          \/ \E keep, give \in SUBSET states[p] : BalanceStart(p, keep, give)
          \/ \E s \in Common(p) : ComputeNewStateGuid(p, s)
          \/ BalanceRefused(p)
          \/ BalanceReserve(p)
          \/ BalanceFailed(p)
          \/ \E c \in Procs : BalanceForked(p, c)
          \/ ChildStarts(p)
          \/ DropOtherStates(p)
          \/ ProcessExit(p)
    BY <1>2, Zenon DEF BalanceNext
  <2>2. CASE \E s \in states[p] : StateFork(p, s) \/ TerminateState(p, s)
    BY <2>2, StateForkStep, TerminateStateStep, Zenon
  <2>3. CASE \E keep, give \in SUBSET states[p] : BalanceStart(p, keep, give)
    BY <2>3, BalanceStartStep, Zenon
  <2>4. CASE \E s \in Common(p) : ComputeNewStateGuid(p, s)
    BY <2>4, ComputeNewStateGuidStep, Zenon
  <2>5. CASE \E c \in Procs : BalanceForked(p, c)
    BY <2>5, BalanceForkedStep, Zenon
  <2>6. CASE BalanceRefused(p) \/ BalanceReserve(p) \/ BalanceFailed(p)
    BY <2>6, BalanceRefusedStep, BalanceReserveStep, BalanceFailedStep, Zenon
  <2>7. CASE ChildStarts(p) \/ DropOtherStates(p) \/ ProcessExit(p)
    BY <2>7, ChildStartsStep, DropOtherStatesStep, ProcessExitStep, Zenon
  <2> QED BY <2>1, <2>2, <2>3, <2>4, <2>5, <2>6, <2>7, Zenon
<1> QED BY <1>1, <1>2, Zenon

LEMMA ClaimsIdentifyStates == BalanceInv => GuidsAreUnique
<1> SUFFICES ASSUME BalanceInv PROVE GuidsAreUnique
  OBVIOUS
<1>1. ClaimsAreDisjoint
  BY Zenon DEF BalanceInv
<1>2. \A p \in Procs : Settled(p) => Kept(p) = states[p]
  BY Zenon DEF Settled, Kept
<1> QED BY <1>1, <1>2 DEF ClaimsAreDisjoint, GuidsAreUnique, Guids

LEMMA ClaimsAreHeld == IInv /\ BalanceInv => NoStateIsLost
<1> SUFFICES ASSUME IInv, BalanceInv, NEW g \in toExplore
             PROVE  \E p \in Procs :
                      /\ pc[p] \in {"running", "forking", "starting", "claimed"}
                      /\ \E s \in states[p] :
                           IF phase[p] = "child"
                           THEN s \in childSet[p] \ parentSet[p] /\ guid[p][s] = g
                           ELSE guid[p][s] = g /\ (phase[p] = "parent" => s \in parentSet[p])
  BY Zenon DEF NoStateIsLost
<1>1. PICK p \in Procs : \E s \in Kept(p) : guid[p][s] = g
  BY Zenon DEF BalanceInv, EveryGuidIsKept
<1>2. PICK s \in Kept(p) : guid[p][s] = g
  BY <1>1, Zenon
<1>3. s \in states[p] /\ pc[p] \notin {"unborn", "dead"}
  BY ClaimTypes, Zenon
<1>4. pc[p] \in PC /\ pc[p] # "aborted"
  BY Zenon DEF IInv, PoolTypeOK, NoAssertionFails
<1>5. pc[p] \in {"running", "forking", "starting", "claimed"}
  BY <1>3, <1>4, Zenon DEF PC
<1>6. /\ phase[p] = "child" => s \in childSet[p] \ parentSet[p]
      /\ phase[p] = "parent" => s \in parentSet[p]
  BY Zenon DEF Kept
<1> QED BY <1>2, <1>3, <1>5, <1>6, Zenon

-------------------------------------------------------------------------------
(***************************************************************************)
(* The library's facts, and the theorems.                                  *)
(***************************************************************************)
INSTANCE FiniteSetTheorems

LEMMA LibraryFactsHold == LibraryFacts
<1>1. SmallestExists
  <2> SUFFICES ASSUME NEW S \in SUBSET Nat, S # {} PROVE \E x \in S : \A y \in S : x <= y
    BY Zenon DEF SmallestExists
  <2>1. PICK x \in S : \A y \in S : ~(<<y, x>> \in OpToRel(<, Nat))
    BY WFMin, NatLessThanWellFounded, Zenon
  <2>2. \A y \in S : ~(y < x)
    BY <2>1, Zenon DEF OpToRel
  <2> QED BY <2>2
<1>2. Interval
  <2> SUFFICES ASSUME NEW n \in Nat PROVE IsFiniteSet(0 .. n - 1) /\ Cardinality(0 .. n - 1) = n
    BY Zenon DEF Interval
  <2>1. 0 \in Int /\ n - 1 \in Int
    OBVIOUS
  <2>2. IsFiniteSet(0 .. n - 1) /\ Cardinality(0 .. n - 1) = IF 0 > n - 1 THEN 0 ELSE (n - 1) - 0 + 1
    BY <2>1, FS_Interval, Zenon
  <2> QED BY <2>2
<1>3. EmptySet /\ Singleton
  BY FS_EmptySet, FS_Singleton, Zenon DEF EmptySet, Singleton
<1>4. Counted
  BY FS_EmptySet, FS_CardinalityType, Zenon DEF Counted
<1>5. Subset
  BY FS_Subset, Zenon DEF Subset
<1>6. AddElement /\ RemoveElement
  BY FS_AddElement, FS_RemoveElement, Zenon DEF AddElement, RemoveElement
<1> QED BY <1>1, <1>2, <1>3, <1>4, <1>5, <1>6, Zenon DEF LibraryFacts

\* However many processes fork, fail to fork, start and terminate in whatever
\* order, no assertion of S2E::fork, S2E::~S2E or initOutputDirectory fails (a
\* child finds a slot and a fresh output directory), the instance count is exact
\* and slots and live instances match one to one.
THEOREM PoolSafety ==
  Spec => [](PoolTypeOK /\ NoAssertionFails /\ CountIsExact /\ SlotsMatchInstances)
<1>1. PoolInit => IInv
  BY PoolInitIInv, LibraryFactsHold, Zenon
<1>2. IInv /\ [Next]_poolVars => IInv'
  BY PoolNextStep, LibraryFactsHold, Zenon
<1> QED BY <1>1, <1>2, PTL DEF Spec, IInv

\* The instance table stays consistent while states are split, renumbered and
\* given away: no assertion of S2E::fork and S2E::~S2E fails, the count is exact
\* and every slot belongs to one live instance.
THEOREM BalanceKeepsPool ==
  BalanceSpec => [](PoolTypeOK /\ NoAssertionFails /\ CountIsExact /\ SlotsMatchInstances)
<1>1. BalanceInit => PoolInit
  BY DEF BalanceInit
<1>2. UNCHANGED vars => UNCHANGED poolVars
  BY DEF vars
<1>3. BalanceSpec => Spec
  BY <1>1, <1>2, BalanceImplementsPool, PTL DEF BalanceSpec, Spec
<1> QED
  BY <1>3, PoolSafety, PTL

\* No assertion of S2E::fork, S2E::~S2E and initOutputDirectory fails while the load
\* is balanced: a child finds a free slot and a fresh output directory.
THEOREM ForksNeverAbort == BalanceSpec => []NoAssertionFails
BY BalanceKeepsPool, PTL

LEMMA BalanceInvHolds == BalanceSpec => [](IInv /\ BalanceInv)
<1>1. BalanceInit => IInv /\ BalanceInv
  BY PoolInitIInv, BalanceInitInv, LibraryFactsHold DEF BalanceInit, IInv
<1>2. UNCHANGED vars => UNCHANGED poolVars
  BY DEF vars
<1>3. IInv /\ BalanceInv /\ [BalanceNext]_vars => (IInv /\ BalanceInv)'
  BY <1>2, BalanceImplementsPool, PoolNextStep, BalanceNextStep, LibraryFactsHold
<1> QED BY <1>1, <1>3, PTL DEF BalanceSpec

\* The guid of a state identifies it across all S2E processes, however the states
\* are split and whatever forks are refused or fail: the numbers that
\* computeNewStateGuids takes for states kept on both sides are used by nobody else.
THEOREM GuidsIdentifyStates == BalanceSpec => []GuidsAreUnique
BY ClaimsIdentifyStates, BalanceInvHolds, PTL

\* Splitting loses no state: a guid that no process has terminated or given up by
\* exiting is held by a live process that will keep it when doLoadBalancing returns.
THEOREM SplittingLosesNothing == BalanceSpec => []NoStateIsLost
BY ClaimsAreHeld, BalanceInvHolds, PTL

===============================================================================
