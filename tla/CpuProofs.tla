------------------------------- MODULE CpuProofs -------------------------------
(***************************************************************************)
(* Proofs about the CPU: its registers (CpuRegisters) and the thread that  *)
(* runs it for the KVM client (KvmVcpu).                                   *)
(*                                                                         *)
(* Registers.  The register contents of every execution state survive mode *)
(* switches, forks and context switches, for any number of states,         *)
(* registers and values.                                                   *)
(*                                                                         *)
(* Threads.  The lock of the cpu keeps the guest and the other threads of  *)
(* the client apart, for any number of threads.  The assertion in          *)
(* setUserMemoryRegion tests m_inKvmRun, which the cpu thread writes under *)
(* the lock: the invariant says that the lock, the flag and the place of   *)
(* the cpu thread agree.  The assertions in VCPU::interrupt need what      *)
(* run() told the client to hold still, and that the pending bit and the   *)
(* number of the interrupt go together.                                    *)
(***************************************************************************)
EXTENDS CpuRegisters, KvmVcpu, TLAPS

\* Threads.

\* The conjuncts of VcpuTypeOK.
PlacesOK ==
  /\ cpu \in CpuPC
  /\ resume \in {"start", "tb", "cloned"}
  /\ lock \in Clients \cup {CPU, Nobody}
  /\ client \in [Clients -> ClientPC]

RunFlagsOK ==
  /\ inKvmRun \in BOOLEAN /\ callback \in BOOLEAN /\ window \in BOOLEAN /\ ready \in BOOLEAN

EnvFlagsOK ==
  /\ exitRequest \in BOOLEAN /\ riw \in BOOLEAN
  /\ ifFlag \in BOOLEAN /\ kvmIrq \in BOOLEAN /\ hard \in BOOLEAN

SignalFlagsOK ==
  /\ signal \in BOOLEAN /\ blocked \in BOOLEAN /\ inited \in BOOLEAN /\ slow \in BOOLEAN

LEMMA TypeParts == VcpuTypeOK <=> PlacesOK /\ RunFlagsOK /\ EnvFlagsOK /\ SignalFlagsOK
BY Zenon DEF VcpuTypeOK, PlacesOK, RunFlagsOK, EnvFlagsOK, SignalFlagsOK

LEMMA TypePartsNext == VcpuTypeOK' <=> PlacesOK' /\ RunFlagsOK' /\ EnvFlagsOK' /\ SignalFlagsOK'
BY Zenon DEF VcpuTypeOK, PlacesOK, RunFlagsOK, EnvFlagsOK, SignalFlagsOK

LockAgrees ==
  /\ lock = CPU <=> cpu \in InCoroutine
  /\ inKvmRun <=> cpu \in InCoroutine
  /\ \A c \in Clients : client[c] = "holding" => lock = c
  /\ \A c \in Clients : client[c] \in {"idle", "kicked", "holding"}

InterruptsAgree ==
  /\ cpu # "aborted"
  /\ hard => kvmIrq
  /\ cpu = "out" /\ ready => ~callback /\ ifFlag /\ ~kvmIrq

VcpuInv == VcpuTypeOK /\ LockAgrees /\ InterruptsAgree

LEMMA InitVcpuInv == VcpuInit => VcpuInv
BY KvmVcpuAssumption, Zenon DEF VcpuInit, VcpuInv, VcpuTypeOK, LockAgrees, InterruptsAgree, CpuPC, ClientPC, InCoroutine

LEMMA RunStep ==
  ASSUME VcpuInv, NEW w \in BOOLEAN, Run(w)
  PROVE  VcpuInv'
<1>1. VcpuTypeOK'
  BY DEF Run, InjectionWindow, VcpuInv, VcpuTypeOK, CpuPC, kicks, interrupts
<1>2. LockAgrees'
  BY Zenon DEF Run, VcpuInv, VcpuTypeOK, LockAgrees, InCoroutine
<1>3. InterruptsAgree'
  BY Zenon DEF Run, InjectionWindow, VcpuInv, VcpuTypeOK, InterruptsAgree, interrupts
<1> QED BY <1>1, <1>2, <1>3, Zenon DEF VcpuInv

\* The cpu thread takes the lock.
LEMMA RunLockedStep ==
  ASSUME VcpuInv, RunLocked
  PROVE  VcpuInv'
<1>1. resume \in InCoroutine
  BY Zenon DEF VcpuInv, VcpuTypeOK, InCoroutine
<1>2. VcpuTypeOK'
  <2>1. PlacesOK'
    BY <1>1, TypeParts, Zenon DEF RunLocked, VcpuInv, PlacesOK, CpuPC, InCoroutine, ClientPC
  <2>2. RunFlagsOK'
    BY <1>1, TypeParts, Zenon DEF RunLocked, VcpuInv, RunFlagsOK
  <2>3. EnvFlagsOK'
    BY <1>1, TypeParts, Zenon DEF RunLocked, VcpuInv, EnvFlagsOK, kicks, interrupts
  <2>4. SignalFlagsOK'
    BY <1>1, TypeParts, Zenon DEF RunLocked, VcpuInv, SignalFlagsOK, signals
  <2> QED BY <2>1, <2>2, <2>3, <2>4, TypePartsNext, Zenon
<1>3. LockAgrees'
  BY <1>1, KvmVcpuAssumption, Zenon DEF RunLocked, VcpuInv, VcpuTypeOK, LockAgrees
<1>4. InterruptsAgree'
  BY <1>1, Zenon DEF RunLocked, VcpuInv, InterruptsAgree, InCoroutine, interrupts
<1> QED BY <1>2, <1>3, <1>4, Zenon DEF VcpuInv

\* The cpu thread stays in the coroutine.
LEMMA GuestSteps ==
  ASSUME VcpuInv,
         \/ Start \/ DeliverInterrupt \/ TestExitRequest \/ ClearExitRequest
         \/ GuestStep \/ TbReturns \/ AfterTb \/ Callback
  PROVE  VcpuInv'
<1>1. VcpuTypeOK'
  <2>1. CASE Start
    <3>1. PlacesOK'
      BY <2>1, TypeParts, Zenon DEF Start, VcpuInv, PlacesOK, CpuPC, InCoroutine, ClientPC
    <3>2. RunFlagsOK'
      BY <2>1, TypeParts, Zenon DEF Start, VcpuInv, RunFlagsOK
    <3>3. EnvFlagsOK'
      BY <2>1, TypeParts, Zenon DEF Start, VcpuInv, EnvFlagsOK, kicks, interrupts
    <3>4. SignalFlagsOK'
      BY <2>1, TypeParts, Zenon DEF Start, VcpuInv, SignalFlagsOK, signals
    <3> QED BY <3>1, <3>2, <3>3, <3>4, TypePartsNext, Zenon
  <2>2. CASE DeliverInterrupt
    <3>1. PlacesOK'
      BY <2>2, TypeParts, Zenon DEF DeliverInterrupt, VcpuInv, PlacesOK, CpuPC, InCoroutine, ClientPC
    <3>2. RunFlagsOK'
      BY <2>2, TypeParts, Zenon DEF DeliverInterrupt, VcpuInv, RunFlagsOK
    <3>3. EnvFlagsOK'
      BY <2>2, TypeParts, Zenon DEF DeliverInterrupt, VcpuInv, EnvFlagsOK, kicks, interrupts
    <3>4. SignalFlagsOK'
      BY <2>2, TypeParts, Zenon DEF DeliverInterrupt, VcpuInv, SignalFlagsOK, signals
    <3> QED BY <3>1, <3>2, <3>3, <3>4, TypePartsNext, Zenon
  <2>3. CASE TestExitRequest \/ ClearExitRequest
    <3>1. PlacesOK'
      BY <2>3, TypeParts, Zenon DEF TestExitRequest, ClearExitRequest, VcpuInv, PlacesOK, CpuPC, InCoroutine, ClientPC
    <3>2. RunFlagsOK'
      BY <2>3, TypeParts, Zenon DEF TestExitRequest, ClearExitRequest, VcpuInv, RunFlagsOK
    <3>3. EnvFlagsOK'
      BY <2>3, TypeParts, Zenon DEF TestExitRequest, ClearExitRequest, VcpuInv, EnvFlagsOK, kicks, interrupts
    <3>4. SignalFlagsOK'
      BY <2>3, TypeParts, Zenon DEF TestExitRequest, ClearExitRequest, VcpuInv, SignalFlagsOK, signals
    <3> QED BY <3>1, <3>2, <3>3, <3>4, TypePartsNext, Zenon
  <2>4. CASE GuestStep
    BY <2>4 DEF GuestStep, VcpuInv, VcpuTypeOK
  <2>5. CASE TbReturns \/ AfterTb
    <3>1. PlacesOK'
      BY <2>5, TypeParts, Zenon DEF TbReturns, AfterTb, VcpuInv, PlacesOK, CpuPC, InCoroutine, ClientPC
    <3>2. RunFlagsOK'
      BY <2>5, TypeParts, Zenon DEF TbReturns, AfterTb, VcpuInv, RunFlagsOK
    <3>3. EnvFlagsOK'
      BY <2>5, TypeParts, Zenon DEF TbReturns, AfterTb, VcpuInv, EnvFlagsOK, kicks, interrupts
    <3>4. SignalFlagsOK'
      BY <2>5, TypeParts, Zenon DEF TbReturns, AfterTb, VcpuInv, SignalFlagsOK, signals
    <3> QED BY <3>1, <3>2, <3>3, <3>4, TypePartsNext, Zenon
  <2>6. CASE Callback
    BY <2>6 DEF Callback, VcpuInv, VcpuTypeOK, CpuPC, InCoroutine, kicks, interrupts, signals
  <2> QED BY <2>1, <2>2, <2>3, <2>4, <2>5, <2>6, Zenon
<1>2. cpu \in InCoroutine /\ cpu' \in InCoroutine /\ UNCHANGED <<lock, inKvmRun, client>>
  BY DEF Start, DeliverInterrupt, TestExitRequest, ClearExitRequest, GuestStep, TbReturns, AfterTb,
         Callback, InCoroutine
<1>3. LockAgrees'
  BY <1>2, Zenon DEF VcpuInv, LockAgrees
<1>4. (hard => kvmIrq)'
  BY Zenon DEF Start, DeliverInterrupt, TestExitRequest, ClearExitRequest, GuestStep, TbReturns, AfterTb,
         Callback, interrupts, VcpuInv, VcpuTypeOK, InterruptsAgree
<1>5. InterruptsAgree'
  BY <1>2, <1>4, Zenon DEF InterruptsAgree, InCoroutine
<1> QED BY <1>1, <1>3, <1>5, Zenon DEF VcpuInv

\* The cpu thread leaves the guest and gives up the lock.
LEMMA ReturnSteps ==
  ASSUME VcpuInv, Yield \/ ReturnCallback
  PROVE  VcpuInv'
<1>1. VcpuTypeOK'
  <2>1. PlacesOK'
    BY TypeParts, Zenon DEF Yield, ReturnCallback, VcpuInv, PlacesOK, CpuPC, InCoroutine, ClientPC
  <2>2. RunFlagsOK'
    BY TypeParts, Zenon DEF Yield, ReturnCallback, VcpuInv, RunFlagsOK, InjectionWindow
  <2>3. EnvFlagsOK'
    BY TypeParts, Zenon DEF Yield, ReturnCallback, VcpuInv, EnvFlagsOK, kicks, interrupts
  <2>4. SignalFlagsOK'
    BY TypeParts, Zenon DEF Yield, ReturnCallback, VcpuInv, SignalFlagsOK, signals
  <2> QED BY <2>1, <2>2, <2>3, <2>4, TypePartsNext, Zenon
<1>2. cpu \in InCoroutine
  BY Zenon DEF Yield, ReturnCallback, InCoroutine
<1>3. LockAgrees'
  <2>1. lock' = Nobody /\ ~inKvmRun' /\ cpu' = "out" /\ client' = client
    BY Zenon DEF Yield, ReturnCallback
  <2>2. \A c \in Clients : client[c] # "holding"
    BY <1>2, KvmVcpuAssumption, Zenon DEF VcpuInv, LockAgrees
  <2> QED BY <2>1, <2>2, KvmVcpuAssumption, Zenon DEF VcpuInv, LockAgrees, InCoroutine
<1>4. InterruptsAgree'
  <2>1. cpu' = "out" /\ ifFlag' = ifFlag /\ kvmIrq' = kvmIrq /\ hard' = hard
    BY Zenon DEF Yield, ReturnCallback, interrupts
  <2>2. ready' => ~callback' /\ ifFlag /\ ~kvmIrq
    BY Zenon DEF Yield, ReturnCallback, InjectionWindow
  <2> QED BY <2>1, <2>2, Zenon DEF VcpuInv, InterruptsAgree
<1> QED BY <1>1, <1>3, <1>4, Zenon DEF VcpuInv

LEMMA InterruptStep ==
  ASSUME VcpuInv, Interrupt
  PROVE  VcpuInv'
<1>1. cpu' = "injected"
  BY Zenon DEF Interrupt, VcpuInv, VcpuTypeOK, LockAgrees, InterruptsAgree, InCoroutine
<1>2. VcpuTypeOK'
  BY <1>1 DEF Interrupt, VcpuInv, VcpuTypeOK, CpuPC, kicks, signals
<1>3. LockAgrees'
  BY <1>1, Zenon DEF Interrupt, VcpuInv, LockAgrees, InCoroutine
<1>4. InterruptsAgree'
  BY <1>1, Zenon DEF Interrupt, InterruptsAgree
<1> QED BY <1>2, <1>3, <1>4, Zenon DEF VcpuInv

LEMMA SignalSteps ==
  ASSUME VcpuInv, CpuExitSignal \/ TimerCb
  PROVE  VcpuInv'
<1>1. VcpuTypeOK'
  <2>1. PlacesOK'
    BY TypeParts, Zenon DEF CpuExitSignal, TimerCb, VcpuInv, PlacesOK, CpuPC, InCoroutine, ClientPC
  <2>2. RunFlagsOK'
    BY TypeParts, Zenon DEF CpuExitSignal, TimerCb, VcpuInv, RunFlagsOK
  <2>3. EnvFlagsOK'
    BY TypeParts, Zenon DEF CpuExitSignal, TimerCb, VcpuInv, EnvFlagsOK, kicks, interrupts
  <2>4. SignalFlagsOK'
    BY TypeParts, Zenon DEF CpuExitSignal, TimerCb, VcpuInv, SignalFlagsOK, SendExitSignal
  <2> QED BY <2>1, <2>2, <2>3, <2>4, TypePartsNext, Zenon
<1>2. LockAgrees'
  BY DEF CpuExitSignal, TimerCb, VcpuInv, LockAgrees
<1>3. InterruptsAgree'
  BY DEF CpuExitSignal, TimerCb, VcpuInv, InterruptsAgree, interrupts
<1> QED BY <1>1, <1>2, <1>3, Zenon DEF VcpuInv

LEMMA ClientStep ==
  ASSUME VcpuInv, NEW c \in Clients, RequestExit(c) \/ ClientLock(c) \/ ClientUnlock(c)
  PROVE  VcpuInv'
<1>1. UNCHANGED <<cpu, inKvmRun>>
  BY Zenon DEF RequestExit, ClientLock, ClientUnlock
<1>2. ClientLock(c) => ~inKvmRun
  BY KvmVcpuAssumption, Zenon DEF ClientLock, VcpuInv, LockAgrees
<1>3. VcpuTypeOK'
  <2>1. CASE RequestExit(c)
    BY <2>1 DEF RequestExit, SendExitSignal, VcpuInv, VcpuTypeOK, ClientPC, kicks, interrupts
  <2>2. CASE ClientLock(c)
    BY <2>2 DEF ClientLock, VcpuInv, VcpuTypeOK, ClientPC, kicks, interrupts, signals
  <2>3. CASE ClientUnlock(c)
    BY <2>3 DEF ClientUnlock, VcpuInv, VcpuTypeOK, ClientPC, kicks, interrupts, signals
  <2> QED BY <2>1, <2>2, <2>3, Zenon
<1>4. LockAgrees'
  <2>1. CASE RequestExit(c)
    BY <2>1, Zenon DEF RequestExit, VcpuInv, VcpuTypeOK, LockAgrees
  <2>2. CASE ClientLock(c)
    BY <1>2, <2>2, KvmVcpuAssumption, Zenon DEF ClientLock, VcpuInv, VcpuTypeOK, LockAgrees
  <2>3. CASE ClientUnlock(c)
    BY <2>3, KvmVcpuAssumption, Zenon DEF ClientUnlock, VcpuInv, VcpuTypeOK, LockAgrees
  <2> QED BY <2>1, <2>2, <2>3, Zenon
<1>5. InterruptsAgree'
  BY DEF RequestExit, ClientLock, ClientUnlock, VcpuInv, InterruptsAgree, interrupts
<1> QED BY <1>3, <1>4, <1>5, Zenon DEF VcpuInv

LEMMA NextVcpuInv == VcpuInv /\ [VcpuNext]_vcpuVars => VcpuInv'
<1> SUFFICES ASSUME VcpuInv, [VcpuNext]_vcpuVars PROVE VcpuInv'
  OBVIOUS
<1>1. CASE CpuNext
  BY <1>1, RunStep, RunLockedStep, GuestSteps, ReturnSteps, InterruptStep, SignalSteps, Zenon DEF CpuNext
<1>2. CASE TimerCb
  BY <1>2, SignalSteps, Zenon
<1>3. CASE ClientNext
  BY <1>3, ClientStep, Zenon DEF ClientNext
<1>4. CASE UNCHANGED vcpuVars
  BY <1>4 DEF vcpuVars, kicks, interrupts, signals, VcpuInv, VcpuTypeOK, LockAgrees, InterruptsAgree
<1> QED BY <1>1, <1>2, <1>3, <1>4, Zenon DEF VcpuNext

LEMMA VcpuInvariant == VcpuSpec => []VcpuInv
BY InitVcpuInv, NextVcpuInv, PTL DEF VcpuSpec

\* Whatever the guest and the client do, no assertion of setUserMemoryRegion or
\* VCPU::interrupt fails, and a thread in the section of the cpu lock has the
\* memory of the guest for itself.
THEOREM KvmVcpuSafety == VcpuSpec => [](NoAssertionFails /\ MemoryAccessIsExclusive)
<1>1. VcpuInv => NoAssertionFails
  BY Zenon DEF VcpuInv, LockAgrees, InterruptsAgree, NoAssertionFails
<1>2. VcpuInv => MemoryAccessIsExclusive
  BY KvmVcpuAssumption, Zenon DEF VcpuInv, LockAgrees, MemoryAccessIsExclusive
<1> QED BY <1>1, <1>2, VcpuInvariant, PTL

\* No assertion of setUserMemoryRegion and VCPU::interrupt fails, whatever the
\* client threads do while the guest runs.
THEOREM VcpuNeverAborts == VcpuSpec => []NoAssertionFails
BY KvmVcpuSafety, PTL

--------------------------------------------------------------------------------
\* Registers.

\* Native code is only entered, and only stays, in a state without symbolic
\* registers; this is what makes its direct writes to env visible.
NativeIsConcrete == running = "native" => AllConcrete(current)

IInv ==
  /\ TypeOK
  /\ RegistersAreExact
  /\ FastPathIsSound
  /\ ModeMatchesEngine
  /\ NativeIsConcrete

LEMMA InitIInv == Init => IInv
<1> SUFFICES ASSUME Init PROVE IInv
  OBVIOUS
<1> USE CpuAssumption DEF Init
<1>1. PICK v \in Vals :
        /\ env = [r \in Symb |-> v]
        /\ native = [c \in Shared |-> v]
        /\ store = [s \in States |-> [r \in Symb |-> v]]
        /\ symbolic = [s \in States |-> [r \in Symb |-> Concrete]]
        /\ saved = [s \in States |-> [c \in Shared |-> v]]
        /\ guest = [s \in States |-> [c \in Cells |-> v]]
  OBVIOUS
<1>2. TypeOK
  BY <1>1, Zenon DEF TypeOK
<1>3. RegistersAreExact
  BY <1>1 DEF RegistersAreExact, View, ReadSymbolicRegion, ReadShared, ObjectRead, IsConcrete, Cells
<1>4. FastPathIsSound /\ ModeMatchesEngine /\ NativeIsConcrete
  BY Zenon DEF FastPathIsSound, ModeMatchesEngine, NativeIsConcrete
<1>5. QED
  BY <1>2, <1>3, <1>4, Zenon DEF IInv

\* Steps that only move the control leave every cell where it is.
LEMMA SameCells ==
  ASSUME RegistersAreExact,
         UNCHANGED <<dataVars, live, active, runningConcrete>>
  PROVE  RegistersAreExact'
BY DEF RegistersAreExact, View, ReadSymbolicRegion, ReadShared, ObjectRead, IsConcrete, dataVars, Cells

LEMMA ControlSteps ==
  ASSUME IInv,
         \/ RunTbFast \/ FinalizeTranslationBlockExec \/ JumpToSymbolic
         \/ LeaveTb \/ ForkAborted \/ TerminateCurrent
         \/ \E t \in States : TerminateOther(t)
  PROVE  IInv'
<1> USE DEF IInv
<1> DEFINE Inv4 == FastPathIsSound /\ ModeMatchesEngine /\ NativeIsConcrete
<1>1. CASE RunTbFast
  <2> USE <1>1 DEF RunTbFast, InLoop
  <2>1. RegistersAreExact'
    BY SameCells, Zenon
  <2>2. TypeOK'
    BY Zenon DEF TypeOK, dataVars, Cells
  <2>3. Inv4'
    BY Zenon DEF TypeOK, dataVars, FastPathIsSound, ModeMatchesEngine, NativeIsConcrete, AllConcrete, IsConcrete
  <2>4. QED
    BY <2>1, <2>2, <2>3, Zenon
<1>2. CASE FinalizeTranslationBlockExec
  <2> USE <1>2 DEF FinalizeTranslationBlockExec, InLoop
  <2>1. RegistersAreExact'
    BY SameCells, Zenon
  <2>2. TypeOK'
    BY Zenon DEF TypeOK, dataVars, Cells
  <2>3. Inv4'
    BY Zenon DEF TypeOK, dataVars, FastPathIsSound, ModeMatchesEngine, NativeIsConcrete, AllConcrete, IsConcrete
  <2>4. QED
    BY <2>1, <2>2, <2>3, Zenon
<1>3. CASE JumpToSymbolic
  <2> USE <1>3 DEF JumpToSymbolic
  <2>1. RegistersAreExact'
    BY SameCells, Zenon
  <2>2. TypeOK'
    BY Zenon DEF TypeOK, dataVars, Cells
  <2>3. Inv4'
    BY Zenon DEF TypeOK, dataVars, FastPathIsSound, ModeMatchesEngine, NativeIsConcrete, AllConcrete, IsConcrete
  <2>4. QED
    BY <2>1, <2>2, <2>3, Zenon
<1>4. CASE LeaveTb
  <2> USE <1>4 DEF LeaveTb
  <2>1. RegistersAreExact'
    BY SameCells, Zenon
  <2>2. TypeOK'
    BY Zenon DEF TypeOK, dataVars, Cells
  <2>3. Inv4'
    BY Zenon DEF TypeOK, dataVars, FastPathIsSound, ModeMatchesEngine, NativeIsConcrete, AllConcrete, IsConcrete
  <2>4. QED
    BY <2>1, <2>2, <2>3, Zenon
<1>5. CASE ForkAborted
  <2> USE <1>5 DEF ForkAborted
  <2>1. RegistersAreExact'
    BY SameCells, Zenon
  <2>2. TypeOK'
    BY Zenon DEF TypeOK, dataVars, Cells
  <2>3. Inv4'
    BY Zenon DEF TypeOK, dataVars, FastPathIsSound, ModeMatchesEngine, NativeIsConcrete, AllConcrete, IsConcrete
  <2>4. QED
    BY <2>1, <2>2, <2>3, Zenon
<1>6. CASE TerminateCurrent
  <2> USE <1>6 DEF TerminateCurrent
  <2>1. RegistersAreExact'
    BY SameCells, Zenon
  <2>2. TypeOK'
    BY Zenon DEF TypeOK, dataVars, Cells
  <2>3. Inv4'
    BY Zenon DEF TypeOK, dataVars, FastPathIsSound, ModeMatchesEngine, NativeIsConcrete, AllConcrete, IsConcrete
  <2>4. QED
    BY <2>1, <2>2, <2>3, Zenon
<1>7. CASE \E t \in States : TerminateOther(t)
  <2> USE <1>7 DEF TerminateOther
  <2>1. RegistersAreExact'
    BY SameCells, Zenon
  <2>2. TypeOK'
    BY Zenon DEF TypeOK, dataVars, Cells
  <2>3. Inv4'
    BY DEF TypeOK, dataVars, FastPathIsSound, ModeMatchesEngine, NativeIsConcrete, AllConcrete, IsConcrete
  <2>4. QED
    BY <2>1, <2>2, <2>3, Zenon
<1>8. QED
  BY <1>1, <1>2, <1>3, <1>4, <1>5, <1>6, <1>7, Zenon

\* An object write of the current state's register, seen from every state.
LEMMA ObjectWriteView ==
  ASSUME IInv, NEW r \in Symb, NEW x \in Vals \cup Exprs,
         ObjectWrite(current, r, x), GuestHas(current, r, x),
         UNCHANGED <<live, current, active, runningConcrete, env, native, saved>>,
         current \notin runningConcrete \/ x \notin Vals
  PROVE  RegistersAreExact'
<1> USE CpuAssumption DEF IInv, TypeOK
<1> SUFFICES ASSUME NEW s \in live', NEW c \in Cells PROVE View(s, c)' = guest'[s][c]
  BY Zenon DEF RegistersAreExact
<1>0. View(s, c) = guest[s][c]
  BY Zenon DEF RegistersAreExact
<1>1. guest'[s][c] = IF s = current /\ c = r THEN x ELSE guest[s][c]
  BY DEF GuestHas, Cells
<1>2. CASE c \in Shared
  <2>1. c \notin Symb /\ c # r
    BY <1>2
  <2>2. QED
    BY <1>0, <1>1, <2>1, Zenon DEF View, ReadShared
<1>3. CASE c \in Symb /\ ~(s = current /\ c = r)
  <2>1. symbolic'[s][c] = symbolic[s][c] /\ store'[s][c] = store[s][c]
    BY <1>3 DEF ObjectWrite
  <2>2. QED
    BY <1>0, <1>1, <1>3, <2>1, Zenon DEF View, ReadSymbolicRegion, ObjectRead, IsConcrete
<1>4. CASE s = current /\ c = r
  <2>1. CASE x \in Vals
    <3>1. symbolic'[s][c] = Concrete /\ store'[s][c] = x /\ s \notin runningConcrete'
      BY <1>4, <2>1, Zenon DEF ObjectWrite
    <3>2. QED
      BY <1>1, <1>4, <3>1, Zenon DEF View, ReadSymbolicRegion, ObjectRead, IsConcrete
  <2>2. CASE x \notin Vals
    <3>1. symbolic'[s][c] = x /\ x # Concrete
      BY <1>4, <2>2, Zenon DEF ObjectWrite
    <3>2. QED
      BY <1>1, <1>4, <3>1, Zenon DEF View, ReadSymbolicRegion, ObjectRead, IsConcrete
  <2>3. QED
    BY <2>1, <2>2, Zenon
<1>5. QED
  BY <1>2, <1>3, <1>4, Zenon DEF Cells

\* A write to env by a state whose register lives there.
LEMMA EnvWriteView ==
  ASSUME IInv, NEW r \in Symb, NEW v \in Vals,
         env' = [env EXCEPT ![r] = v], GuestHas(current, r, v),
         UNCHANGED <<live, current, active, runningConcrete, store, symbolic, native, saved>>,
         current \in runningConcrete, IsConcrete(current, r)
  PROVE  RegistersAreExact'
<1> USE CpuAssumption DEF IInv, TypeOK
<1> SUFFICES ASSUME NEW s \in live', NEW c \in Cells PROVE View(s, c)' = guest'[s][c]
  BY Zenon DEF RegistersAreExact
<1>0. View(s, c) = guest[s][c]
  BY Zenon DEF RegistersAreExact
<1>1. guest'[s][c] = IF s = current /\ c = r THEN v ELSE guest[s][c]
  BY DEF GuestHas, Cells
<1>2. QED
  BY <1>0, <1>1 DEF View, ReadSymbolicRegion, ReadShared, ObjectRead, IsConcrete, Cells

\* The types after an object write.
LEMMA ObjectWriteType ==
  ASSUME IInv, NEW r \in Symb, NEW x \in Vals \cup Exprs, ObjectWrite(current, r, x)
  PROVE  /\ store' \in [States -> [Symb -> Vals]]
         /\ symbolic' \in [States -> [Symb -> Exprs \cup {Concrete}]]
         /\ fast' \in BOOLEAN
         /\ fast' => /\ \A q \in Symb : symbolic'[current][q] = Concrete
                     /\ fast \/ (OneFrame(current) /\ current \in runningConcrete)
<1> USE CpuAssumption DEF IInv, TypeOK
<1>1. store' \in [States -> [Symb -> Vals]] /\ symbolic' \in [States -> [Symb -> Exprs \cup {Concrete}]]
  BY Zenon DEF ObjectWrite
<1> DEFINE all == x \in Vals /\ \A q \in Symb \ {r} : IsConcrete(current, q)
<1>2. (all <=> AllConcrete(current)) => fast' = fast
  BY Zenon DEF ObjectWrite
<1>3. ~(all <=> AllConcrete(current)) => fast' = FastPath(current, all, OneFrame(current))
  BY Zenon DEF ObjectWrite
<1>4. \A q \in Symb : symbolic'[current][q] = IF q = r THEN (IF x \in Vals THEN Concrete ELSE x)
                                              ELSE symbolic[current][q]
  BY Zenon DEF ObjectWrite
<1>5. all => \A q \in Symb : symbolic'[current][q] = Concrete
  BY <1>4, Zenon DEF IsConcrete
<1>6. fast' \in BOOLEAN
  BY <1>2, <1>3, Zenon DEF FastPath
<1>7. ASSUME fast' PROVE all /\ (fast \/ (OneFrame(current) /\ current \in runningConcrete))
  BY <1>2, <1>3, <1>7, Zenon DEF FastPath, FastPathIsSound
<1>8. QED
  BY <1>1, <1>5, <1>6, <1>7, Zenon

\* The rest of the invariant after an object write.
LEMMA ObjectWriteStep ==
  ASSUME IInv, NEW r \in Symb, NEW x \in Vals \cup Exprs,
         ObjectWrite(current, r, x), GuestHas(current, r, x),
         UNCHANGED <<live, zombie, current, active, runningConcrete, needFinalize,
                     startSymbexAtPC, toRunSymbolically, env, native, saved>>,
         current \notin runningConcrete \/ x \notin Vals,
         running' = "loop" \/ (running = "klee" /\ running' = "klee"),
         running = "loop" \/ running' = "klee" \/ current \in runningConcrete
  PROVE  IInv'
<1> USE CpuAssumption DEF IInv
<1>1. RegistersAreExact'
  BY ObjectWriteView, Zenon
<1>2. TypeOK'
  BY ObjectWriteType, Zenon DEF TypeOK, GuestHas, Cells
<1>3. FastPathIsSound'
  <2> SUFFICES ASSUME fast' PROVE current' \in runningConcrete' /\ AllConcrete(current)' /\ running' # "klee"
    BY Zenon DEF FastPathIsSound
  <2>1. (\A q \in Symb : symbolic'[current][q] = Concrete)
          /\ (fast \/ (OneFrame(current) /\ current \in runningConcrete))
    BY ObjectWriteType, Zenon
  <2>2. running # "klee" /\ current \in runningConcrete
    BY <2>1, Zenon DEF FastPathIsSound, OneFrame
  <2>3. QED
    BY <2>1, <2>2, Zenon DEF AllConcrete, IsConcrete
<1>4. ModeMatchesEngine'
  BY Zenon DEF ModeMatchesEngine
<1>5. NativeIsConcrete'
  BY Zenon DEF NativeIsConcrete
<1>6. QED
  BY <1>1, <1>2, <1>3, <1>4, <1>5, Zenon

\* The rest of the invariant after a write to env.
LEMMA EnvWriteStep ==
  ASSUME IInv, NEW r \in Symb, NEW v \in Vals,
         env' = [env EXCEPT ![r] = v], GuestHas(current, r, v),
         UNCHANGED <<modeVars, store, symbolic, native, saved>>,
         current \in runningConcrete, IsConcrete(current, r)
  PROVE  IInv'
<1> USE CpuAssumption DEF IInv, modeVars
<1>1. RegistersAreExact'
  BY EnvWriteView, Zenon
<1>2. TypeOK'
  BY Zenon DEF TypeOK, GuestHas, Cells
<1>3. (FastPathIsSound /\ ModeMatchesEngine /\ NativeIsConcrete)'
  BY Zenon DEF FastPathIsSound, ModeMatchesEngine, NativeIsConcrete, AllConcrete, IsConcrete
<1>4. QED
  BY <1>1, <1>2, <1>3, Zenon

LEMMA WriteSteps ==
  ASSUME IInv,
         \/ \E r \in Symb, v \in Vals : NativeWrite(r, v)
         \/ \E r \in Symb, v \in Vals : HelperWrite(r, v)
         \/ \E r \in Flags, e \in Exprs : LoadSymbolicFlags(r, e)
         \/ \E r \in Symb, x \in Vals \cup Exprs : KleeWrite(r, x)
         \/ \E r \in Symb, v \in Vals : Unmixed(r) /\ ClientWrite(r, v)
         \/ \E r \in Symb, v \in Vals : Unmixed(r) /\ ClientConcretize(r, v)
  PROVE  IInv'
<1> USE CpuAssumption
<1>1. ASSUME NEW r \in Symb, NEW v \in Vals, NativeWrite(r, v) PROVE IInv'
  BY <1>1, EnvWriteStep, Zenon DEF NativeWrite, IInv, ModeMatchesEngine, NativeIsConcrete, AllConcrete
<1>2. ASSUME NEW r \in Symb, NEW v \in Vals, HelperWrite(r, v) PROVE IInv'
  <2>1. current \in runningConcrete /\ IsConcrete(current, r)
    BY <1>2, Zenon DEF HelperWrite, IInv, ModeMatchesEngine, NativeIsConcrete, AllConcrete
  <2>2. env' = [env EXCEPT ![r] = v] /\ UNCHANGED <<store, symbolic, fast>>
    BY <1>2, <2>1, Zenon DEF HelperWrite, WriteSymbolicRegion
  <2>3. QED
    BY <1>2, <2>1, <2>2, EnvWriteStep, Zenon DEF HelperWrite, modeVars
<1>3. ASSUME NEW r \in Flags, NEW e \in Exprs, LoadSymbolicFlags(r, e) PROVE IInv'
  <2>1. r \in Symb /\ e \in Vals \cup Exprs /\ e \notin Vals
    OBVIOUS
  <2>2. current \in runningConcrete
    BY <1>3, Zenon DEF LoadSymbolicFlags, IInv, ModeMatchesEngine
  <2>3. QED
    BY <1>3, <2>1, <2>2, ObjectWriteStep, Zenon DEF LoadSymbolicFlags
<1>4. ASSUME NEW r \in Symb, NEW x \in Vals \cup Exprs, KleeWrite(r, x) PROVE IInv'
  <2>1. current \notin runningConcrete
    BY <1>4, Zenon DEF KleeWrite, IInv, ModeMatchesEngine
  <2>2. QED
    BY <1>4, <2>1, ObjectWriteStep, Zenon DEF KleeWrite
<1>5. ASSUME NEW r \in Symb, NEW v \in Vals, Unmixed(r), ClientWrite(r, v) PROVE IInv'
  <2>1. CASE current \in runningConcrete
    <3>1. IsConcrete(current, r)
      BY <1>5, <2>1, Zenon DEF Unmixed
    <3>2. env' = [env EXCEPT ![r] = v] /\ UNCHANGED <<store, symbolic, fast>>
      BY <1>5, <2>1, <3>1, Zenon DEF ClientWrite, WriteSymbolicRegion
    <3>3. QED
      BY <1>5, <2>1, <3>1, <3>2, EnvWriteStep, Zenon DEF ClientWrite, modeVars
  <2>2. CASE current \notin runningConcrete
    <3>1. ObjectWrite(current, r, v) /\ UNCHANGED env
      BY <1>5, <2>2, Zenon DEF ClientWrite, WriteSymbolicRegion
    <3>2. QED
      BY <1>5, <2>2, <3>1, ObjectWriteStep, Zenon DEF ClientWrite, InLoop
  <2>3. QED
    BY <2>1, <2>2, Zenon
<1>6. ASSUME NEW r \in Symb, NEW v \in Vals, Unmixed(r), ClientConcretize(r, v) PROVE IInv'
  BY <1>6, ObjectWriteStep, Zenon DEF ClientConcretize, InLoop, Unmixed
<1>7. QED
  BY <1>1, <1>2, <1>3, <1>4, <1>5, <1>6, Zenon

LEMMA WriteSharedStep ==
  ASSUME IInv, NEW c \in Shared, NEW v \in Vals, WriteShared(c, v)
  PROVE  IInv'
<1> USE CpuAssumption DEF IInv, WriteShared, modeVars
<1>1. TypeOK'
  BY Zenon DEF TypeOK, GuestHas, Cells
<1>2. RegistersAreExact'
  <2> SUFFICES ASSUME NEW s \in live', NEW d \in Cells PROVE View(s, d)' = guest'[s][d]
    BY Zenon DEF RegistersAreExact
  <2>0. View(s, d) = guest[s][d]
    BY Zenon DEF RegistersAreExact
  <2>1. guest'[s][d] = IF s = current /\ d = c THEN v ELSE guest[s][d]
    BY DEF GuestHas, Cells, TypeOK
  <2>2. QED
    BY <2>0, <2>1 DEF View, ReadSymbolicRegion, ReadShared, ObjectRead, IsConcrete, Cells, TypeOK
<1>3. (FastPathIsSound /\ ModeMatchesEngine /\ NativeIsConcrete)'
  BY Zenon DEF FastPathIsSound, ModeMatchesEngine, NativeIsConcrete, AllConcrete, IsConcrete
<1>4. QED
  BY <1>1, <1>2, <1>3, Zenon

\* A change of mode moves the current state's registers and loses none.
LEMMA ModeChange ==
  ASSUME IInv, EnsureConcrete(current) \/ EnsureSymbolic(current),
         UNCHANGED <<live, current, active, native, symbolic, saved, guest>>
  PROVE  /\ RegistersAreExact'
         /\ env' \in [Symb -> Vals]
         /\ store' \in [States -> [Symb -> Vals]]
         /\ runningConcrete' \subseteq {current}
         /\ EnsureConcrete(current) => current \in runningConcrete'
         /\ EnsureSymbolic(current) => current \notin runningConcrete'
<1> USE CpuAssumption DEF IInv, TypeOK, EnsureConcrete, EnsureSymbolic, SwitchToConcrete, SwitchToSymbolic
<1>1. RegistersAreExact'
  <2> SUFFICES ASSUME NEW s \in live', NEW c \in Cells PROVE View(s, c)' = View(s, c)
    BY DEF RegistersAreExact
  <2>1. CASE c \notin Symb
    BY <2>1, Zenon DEF View, ReadShared
  <2>2. CASE c \in Symb
    BY <2>2, Zenon DEF View, ReadSymbolicRegion, ObjectRead, IsConcrete
  <2>3. QED
    BY <2>1, <2>2, Zenon
<1>2. env' \in [Symb -> Vals] /\ store' \in [States -> [Symb -> Vals]]
  <2>1. store[current] \in [Symb -> Vals]
    OBVIOUS
  <2>2. [store EXCEPT ![current] = env] \in [States -> [Symb -> Vals]]
    OBVIOUS
  <2>3. QED
    BY <2>1, <2>2, Zenon
<1>3. /\ runningConcrete' \subseteq {current}
      /\ EnsureConcrete(current) => current \in runningConcrete'
      /\ EnsureSymbolic(current) => current \notin runningConcrete'
  OBVIOUS
<1>4. QED
  BY <1>1, <1>2, <1>3, Zenon

LEMMA ExecuteTbStep ==
  ASSUME IInv, NEW atPc \in BOOLEAN, NEW translated \in BOOLEAN,
         ExecuteTranslationBlock(atPc, translated)
  PROVE  IInv'
<1> USE CpuAssumption DEF IInv
<1> DEFINE start == current \in startSymbexAtPC /\ atPc
           executeKlee == start \/ ~AllConcrete(current)
           retranslate == ~translated /\ (executeKlee \/ (current \in toRunSymbolically /\ atPc))
<1>1. /\ running = "loop"
      /\ fast' = FastPath(current, AllConcrete(current), OneFrame(current))
      /\ startSymbexAtPC' \subseteq startSymbexAtPC
      /\ toRunSymbolically' \subseteq toRunSymbolically
      /\ current \notin needFinalize
      /\ UNCHANGED <<live, zombie, current, active, needFinalize, native, symbolic, saved, guest>>
  BY Zenon DEF ExecuteTranslationBlock, InLoop
<1>2. fast' \in BOOLEAN
  BY <1>1, Zenon DEF FastPath
<1>3. fast' => current \in runningConcrete /\ AllConcrete(current) /\ current \notin startSymbexAtPC
  BY <1>1, Zenon DEF FastPath
<1>4. CASE retranslate
  <2>1. UNCHANGED <<env, store, runningConcrete, running>>
    BY <1>4, Zenon DEF ExecuteTranslationBlock
  <2>2. RegistersAreExact'
    BY <1>1, <2>1, SameCells, Zenon DEF dataVars
  <2>3. TypeOK'
    BY <1>1, <1>2, <2>1, Zenon DEF TypeOK, Cells
  <2>4. (FastPathIsSound /\ ModeMatchesEngine /\ NativeIsConcrete)'
    BY <1>1, <1>3, <2>1, Zenon DEF FastPathIsSound, ModeMatchesEngine, NativeIsConcrete, AllConcrete, IsConcrete
  <2>5. QED
    BY <2>2, <2>3, <2>4, Zenon
<1>5. CASE ~retranslate /\ executeKlee
  <2>1. running' = "klee" /\ EnsureSymbolic(current)
    BY <1>5, Zenon DEF ExecuteTranslationBlock
  <2>2. /\ RegistersAreExact' /\ env' \in [Symb -> Vals] /\ store' \in [States -> [Symb -> Vals]]
        /\ runningConcrete' \subseteq {current} /\ current \notin runningConcrete'
    BY <1>1, <2>1, ModeChange, Zenon
  <2>3. TypeOK'
    BY <1>1, <1>2, <2>1, <2>2, Zenon DEF TypeOK, Cells
  <2>4. ~fast'
    BY <1>3, <1>5, Zenon
  <2>5. (FastPathIsSound /\ ModeMatchesEngine /\ NativeIsConcrete)'
    BY <1>1, <2>1, <2>2, <2>4, Zenon DEF FastPathIsSound, ModeMatchesEngine, NativeIsConcrete
  <2>6. QED
    BY <2>2, <2>3, <2>5, Zenon
<1>6. CASE ~retranslate /\ ~executeKlee
  <2>1. running' = "native" /\ EnsureConcrete(current)
    BY <1>6, Zenon DEF ExecuteTranslationBlock
  <2>2. /\ RegistersAreExact' /\ env' \in [Symb -> Vals] /\ store' \in [States -> [Symb -> Vals]]
        /\ runningConcrete' \subseteq {current} /\ current \in runningConcrete'
    BY <1>1, <2>1, ModeChange, Zenon
  <2>3. TypeOK'
    BY <1>1, <1>2, <2>1, <2>2, Zenon DEF TypeOK, Cells
  <2>4. AllConcrete(current)'
    BY <1>1, <1>6, Zenon DEF AllConcrete, IsConcrete
  <2>5. (FastPathIsSound /\ ModeMatchesEngine /\ NativeIsConcrete)'
    BY <1>1, <2>1, <2>2, <2>4, Zenon DEF FastPathIsSound, ModeMatchesEngine, NativeIsConcrete
  <2>6. QED
    BY <2>2, <2>3, <2>5, Zenon
<1>7. QED
  BY <1>4, <1>5, <1>6, Zenon

LEMMA DoInterruptStep ==
  ASSUME IInv, DoInterruptAll
  PROVE  IInv'
<1> USE CpuAssumption DEF IInv
<1>1. /\ running = "loop"
      /\ current \notin needFinalize
      /\ UNCHANGED <<live, zombie, current, active, needFinalize, startSymbexAtPC, toRunSymbolically,
                     fast, native, symbolic, saved, guest>>
  BY Zenon DEF DoInterruptAll, InLoop
<1>2. CASE AllConcrete(current)
  <2>1. running' = "native" /\ EnsureConcrete(current)
    BY <1>2, Zenon DEF DoInterruptAll
  <2>2. /\ RegistersAreExact' /\ env' \in [Symb -> Vals] /\ store' \in [States -> [Symb -> Vals]]
        /\ runningConcrete' \subseteq {current} /\ current \in runningConcrete'
    BY <1>1, <2>1, ModeChange, Zenon
  <2>3. TypeOK'
    BY <1>1, <2>1, <2>2, Zenon DEF TypeOK, Cells
  <2>4. AllConcrete(current)'
    BY <1>1, <1>2, Zenon DEF AllConcrete, IsConcrete
  <2>5. (FastPathIsSound /\ ModeMatchesEngine /\ NativeIsConcrete)'
    BY <1>1, <2>1, <2>2, <2>4, Zenon DEF FastPathIsSound, ModeMatchesEngine, NativeIsConcrete
  <2>6. QED
    BY <2>2, <2>3, <2>5, Zenon
<1>3. CASE ~AllConcrete(current)
  <2>0. ~fast
    BY <1>3, Zenon DEF FastPathIsSound
  <2>1. running' = "klee" /\ EnsureSymbolic(current)
    BY <1>3, <2>0, Zenon DEF DoInterruptAll
  <2>2. /\ RegistersAreExact' /\ env' \in [Symb -> Vals] /\ store' \in [States -> [Symb -> Vals]]
        /\ runningConcrete' \subseteq {current} /\ current \notin runningConcrete'
    BY <1>1, <2>1, ModeChange, Zenon
  <2>3. TypeOK'
    BY <1>1, <2>1, <2>2, Zenon DEF TypeOK, Cells
  <2>4. (FastPathIsSound /\ ModeMatchesEngine /\ NativeIsConcrete)'
    BY <1>1, <2>0, <2>1, <2>2, Zenon DEF FastPathIsSound, ModeMatchesEngine, NativeIsConcrete
  <2>5. QED
    BY <2>2, <2>3, <2>4, Zenon
<1>4. QED
  BY <1>2, <1>3, Zenon

LEMMA SetCCOpEflagsStep ==
  ASSUME IInv, NEW v \in Vals, SetCCOpEflags(v)
  PROVE  IInv'
<1> USE CpuAssumption DEF IInv
<1>1. /\ running = "loop"
      /\ current \notin needFinalize
      /\ UNCHANGED <<live, zombie, current, active, needFinalize, startSymbexAtPC, toRunSymbolically,
                     fast, native, symbolic, saved>>
  BY Zenon DEF SetCCOpEflags, InLoop
<1>2. CASE FlagsRegistersAreSymbolic(current)
  <2>0. ~fast
    BY <1>2, Zenon DEF FlagsRegistersAreSymbolic, FastPathIsSound, AllConcrete
  <2>1. running' = "klee" /\ EnsureSymbolic(current) /\ UNCHANGED guest
    BY <1>2, Zenon DEF SetCCOpEflags
  <2>2. /\ RegistersAreExact' /\ env' \in [Symb -> Vals] /\ store' \in [States -> [Symb -> Vals]]
        /\ runningConcrete' \subseteq {current} /\ current \notin runningConcrete'
    BY <1>1, <2>1, ModeChange, Zenon
  <2>3. TypeOK'
    BY <1>1, <2>1, <2>2, Zenon DEF TypeOK, Cells
  <2>4. (FastPathIsSound /\ ModeMatchesEngine /\ NativeIsConcrete)'
    BY <1>1, <2>0, <2>1, <2>2, Zenon DEF FastPathIsSound, ModeMatchesEngine, NativeIsConcrete
  <2>5. QED
    BY <2>2, <2>3, <2>4, Zenon
<1>3. CASE ~FlagsRegistersAreSymbolic(current)
  <2> DEFINE before == IF current \in runningConcrete THEN env ELSE store[current]
  <2>1. /\ runningConcrete' = runningConcrete \cup {current}
        /\ env' = [r \in Symb |-> IF r \in Flags THEN v ELSE before[r]]
        /\ guest' = [guest EXCEPT ![current] = [c \in Cells |-> IF c \in Flags THEN v ELSE guest[current][c]]]
        /\ UNCHANGED <<store, running>>
    BY <1>3, Zenon DEF SetCCOpEflags
  <2>2. before \in [Symb -> Vals]
    BY Zenon DEF TypeOK
  <2>3. TypeOK'
    <3>1. env' \in [Symb -> Vals]
      BY <2>1, <2>2, Zenon
    <3>2. guest' \in [States -> [Cells -> Vals \cup Exprs]]
      BY <2>1 DEF TypeOK
    <3>3. QED
      BY <1>1, <2>1, <3>1, <3>2, Zenon DEF TypeOK
  <2>4. RegistersAreExact'
    <3> SUFFICES ASSUME NEW s \in live', NEW c \in Cells PROVE View(s, c)' = guest'[s][c]
      BY Zenon DEF RegistersAreExact
    <3>0. View(s, c) = guest[s][c]
      BY <1>1, Zenon DEF RegistersAreExact
    <3>1. guest'[s][c] = IF s = current /\ c \in Flags THEN v ELSE guest[s][c]
      BY <1>1, <2>1, Zenon DEF TypeOK
    <3>2. CASE c \in Shared
      BY <1>1, <2>1, <3>0, <3>1, <3>2, Zenon DEF View, ReadShared
    <3>3. CASE c \in Symb /\ s # current
      BY <1>1, <2>1, <3>0, <3>1, <3>3, Zenon DEF View, ReadSymbolicRegion, ObjectRead, IsConcrete, TypeOK
    <3>4. CASE c \in Symb /\ s = current
      <4>1. env'[c] = IF c \in Flags THEN v ELSE before[c]
        BY <2>1, <3>4, Zenon
      <4>2. c \in Flags => symbolic[s][c] = Concrete
        BY <1>3, <3>4, Zenon DEF FlagsRegistersAreSymbolic, IsConcrete
      <4>3. QED
        BY <1>1, <2>1, <3>0, <3>1, <3>4, <4>1, <4>2, Zenon
           DEF View, ReadSymbolicRegion, ObjectRead, IsConcrete, TypeOK
    <3>5. QED
      BY <3>2, <3>3, <3>4, Zenon DEF Cells
  <2>5. (FastPathIsSound /\ ModeMatchesEngine /\ NativeIsConcrete)'
    BY <1>1, <2>1 DEF FastPathIsSound, ModeMatchesEngine, NativeIsConcrete, AllConcrete, IsConcrete, TypeOK
  <2>6. QED
    BY <2>3, <2>4, <2>5, Zenon
<1>4. QED
  BY <1>2, <1>3, Zenon

LEMMA ForkStep ==
  ASSUME IInv, NEW t \in States, Fork(t)
  PROVE  IInv'
<1> USE CpuAssumption DEF IInv
<1>0. /\ t \notin live /\ t # current /\ current \in States /\ current \in live
      /\ running = "klee" /\ current \notin runningConcrete
  BY Zenon DEF Fork, ModeMatchesEngine, TypeOK
<1>1. /\ live' = live \cup {t}
      /\ UNCHANGED <<zombie, current, active, runningConcrete, running, fast, env, native>>
      /\ needFinalize' = needFinalize \cup {t}
      /\ startSymbexAtPC' \subseteq startSymbexAtPC \cup {t}
      /\ toRunSymbolically' \subseteq toRunSymbolically \cup {t}
  BY Zenon DEF Fork
<1>2. \A s \in States :
        /\ saved'[s] = IF s \in {current, t} THEN native ELSE saved[s]
        /\ store'[s] = IF s = t THEN store[current] ELSE store[s]
        /\ symbolic'[s] = IF s = t THEN symbolic[current] ELSE symbolic[s]
        /\ guest'[s] = IF s = t THEN guest[current] ELSE guest[s]
  BY <1>0, Zenon DEF Fork, TypeOK
<1>3. TypeOK'
  <2>1. saved' \in [States -> [Shared -> Vals]] /\ store' \in [States -> [Symb -> Vals]]
    BY <1>0, Zenon DEF Fork, TypeOK
  <2>2. symbolic' \in [States -> [Symb -> Exprs \cup {Concrete}]]
        /\ guest' \in [States -> [Cells -> Vals \cup Exprs]]
    BY <1>0, Zenon DEF Fork, TypeOK
  <2>3. QED
    BY <1>0, <1>1, <2>1, <2>2, Zenon DEF TypeOK
<1>4. RegistersAreExact'
  <2> SUFFICES ASSUME NEW s \in live', NEW c \in Cells PROVE View(s, c)' = guest'[s][c]
    BY Zenon DEF RegistersAreExact
  <2>1. CASE s = t
    <3>1. View(current, c) = guest[current][c]
      BY <1>0, Zenon DEF RegistersAreExact
    <3>2. CASE c \in Symb
      BY <1>0, <1>1, <1>2, <2>1, <3>1, <3>2, Zenon DEF View, ReadSymbolicRegion, ObjectRead, IsConcrete, TypeOK
    <3>3. CASE c \notin Symb
      BY <1>0, <1>1, <1>2, <2>1, <3>1, <3>3, Zenon DEF View, ReadShared, TypeOK
    <3>4. QED
      BY <3>2, <3>3, Zenon
  <2>2. CASE s # t
    <3>0. s \in live /\ s \in States
      BY <1>1, <2>2, Zenon DEF TypeOK
    <3>1. View(s, c) = guest[s][c]
      BY <3>0, Zenon DEF RegistersAreExact
    <3>2. CASE c \in Symb
      BY <1>1, <1>2, <2>2, <3>0, <3>1, <3>2, Zenon DEF View, ReadSymbolicRegion, ObjectRead, IsConcrete, TypeOK
    <3>3. CASE c \notin Symb
      BY <1>1, <1>2, <2>2, <3>0, <3>1, <3>3, Zenon DEF View, ReadShared, TypeOK
    <3>4. QED
      BY <3>2, <3>3, Zenon
  <2>3. QED
    BY <2>1, <2>2, Zenon
<1>5. (FastPathIsSound /\ ModeMatchesEngine /\ NativeIsConcrete)'
  BY <1>0, <1>1, <1>2, Zenon DEF FastPathIsSound, ModeMatchesEngine, NativeIsConcrete, AllConcrete, IsConcrete, TypeOK
<1>6. QED
  BY <1>3, <1>4, <1>5, Zenon

LEMMA SelectNextStateStep ==
  ASSUME IInv, NEW n \in States, SelectNextState(n)
  PROVE  IInv'
<1> USE CpuAssumption DEF IInv
<1>0. n \in live /\ n \notin zombie /\ current \in live /\ current \in States /\ running = "loop"
  BY Zenon DEF SelectNextState, TypeOK
<1>1. /\ current' = n
      /\ live' = live \ zombie
      /\ zombie' = {}
      /\ needFinalize' = needFinalize \ zombie
      /\ startSymbexAtPC' = startSymbexAtPC \ zombie
      /\ toRunSymbolically' = toRunSymbolically \ zombie
      /\ UNCHANGED <<running, env, symbolic, guest>>
  BY Zenon DEF SelectNextState
<1>2. CASE n = current
  <2>1. /\ fast' = FastPath(n, AllConcrete(n), OneFrame(n))
        /\ UNCHANGED <<active, runningConcrete, native, store, saved>>
    BY <1>2, Zenon DEF SelectNextState
  <2>2. fast' \in BOOLEAN /\ (fast' => AllConcrete(n) /\ n \in runningConcrete)
    BY <2>1, Zenon DEF FastPath
  <2>3. TypeOK'
    BY <1>0, <1>1, <1>2, <2>1, <2>2, Zenon DEF TypeOK
  <2>4. RegistersAreExact'
    BY <1>1, <2>1 DEF RegistersAreExact, View, ReadSymbolicRegion, ReadShared, ObjectRead, IsConcrete
  <2>5. (FastPathIsSound /\ ModeMatchesEngine /\ NativeIsConcrete)'
    BY <1>0, <1>1, <1>2, <2>1, <2>2, Zenon
       DEF FastPathIsSound, ModeMatchesEngine, NativeIsConcrete, AllConcrete, IsConcrete
  <2>6. QED
    BY <2>3, <2>4, <2>5, Zenon
<1>3. CASE n # current
  <2>1. /\ store' = IF current \in runningConcrete THEN [store EXCEPT ![current] = env] ELSE store
        /\ runningConcrete' = {}
        /\ saved' = [saved EXCEPT ![current] = native]
        /\ native' = saved[n]
        /\ active' = {n}
        /\ fast' = FALSE
    BY <1>3, Zenon DEF SelectNextState, SaveState, TypeOK
  <2>2. TypeOK'
    <3>1. store' \in [States -> [Symb -> Vals]]
      BY <1>0, <2>1, Zenon DEF TypeOK
    <3>2. saved' \in [States -> [Shared -> Vals]] /\ native' \in [Shared -> Vals]
      BY <1>0, <2>1, Zenon DEF TypeOK
    <3>3. QED
      BY <1>0, <1>1, <2>1, <3>1, <3>2, Zenon DEF TypeOK
  <2>3. RegistersAreExact'
    <3> SUFFICES ASSUME NEW s \in live', NEW c \in Cells PROVE View(s, c)' = View(s, c)
      BY <1>1 DEF RegistersAreExact
    <3>0. s \in States
      BY <1>1, Zenon DEF TypeOK
    <3>1. CASE c \in Symb
      <4>1. store'[s][c] = IF s = current /\ current \in runningConcrete THEN env[c] ELSE store[s][c]
        BY <1>0, <2>1, <3>0, Zenon DEF TypeOK
      <4>2. QED
        BY <1>1, <2>1, <3>1, <4>1 DEF View, ReadSymbolicRegion, ObjectRead, IsConcrete, TypeOK
    <3>2. CASE c \notin Symb
      <4>1. saved'[s] = IF s = current THEN native ELSE saved[s]
        BY <1>0, <2>1, <3>0, Zenon DEF TypeOK
      <4>2. QED
        BY <1>3, <2>1, <3>2, <4>1 DEF View, ReadShared, TypeOK
    <3>3. QED
      BY <3>1, <3>2, Zenon
  <2>4. (FastPathIsSound /\ ModeMatchesEngine /\ NativeIsConcrete)'
    BY <1>0, <1>1, <2>1, Zenon DEF FastPathIsSound, ModeMatchesEngine, NativeIsConcrete
  <2>5. QED
    BY <2>2, <2>3, <2>4, Zenon
<1>4. QED
  BY <1>2, <1>3, Zenon

LEMMA NextIInv == IInv /\ [Next]_vars => IInv'
<1> SUFFICES ASSUME IInv, [Next]_vars PROVE IInv'
  OBVIOUS
<1>1. CASE UNCHANGED vars
  <2> USE <1>1 DEF vars, modeVars
  <2>1. RegistersAreExact'
    BY SameCells, Zenon DEF IInv
  <2>2. (TypeOK /\ FastPathIsSound /\ ModeMatchesEngine /\ NativeIsConcrete)'
    BY Zenon DEF IInv, TypeOK, FastPathIsSound, ModeMatchesEngine, NativeIsConcrete, AllConcrete, IsConcrete, dataVars
  <2>3. QED
    BY <2>1, <2>2, Zenon DEF IInv
<1>2. CASE Next
  BY <1>2, ControlSteps, WriteSteps, WriteSharedStep, ExecuteTbStep, DoInterruptStep,
     SetCCOpEflagsStep, ForkStep, SelectNextStateStep DEF Next
<1>3. QED
  BY <1>1, <1>2, Zenon

\* The contents of every state's registers and shared memory are the ones its own
\* code put there, the fast path is only on when env holds them, and each engine
\* only runs in its own mode: S2EExecutor's switching code is correct whatever
\* the number of states and registers, as long as clients leave the symbolic
\* registers of a concretely running state alone and no states are merged.
THEOREM CpuRegistersSafety ==
  Spec => [](TypeOK /\ RegistersAreExact /\ FastPathIsSound /\ ModeMatchesEngine)
<1>1. IInv => TypeOK /\ RegistersAreExact /\ FastPathIsSound /\ ModeMatchesEngine
  BY Zenon DEF IInv
<1>2. QED
  BY InitIInv, NextIInv, <1>1, PTL DEF Spec

\* g_s2e_fast_concrete_invocation is only set while env is the home of all registers
\* of the current state, as executeTranslationBlockFast and executeInstructions assert.
THEOREM FastPathStaysSound == Spec => []FastPathIsSound
BY CpuRegistersSafety, PTL

\* KLEE never interprets a state that runs concretely and native code never runs in
\* one that does not: the assertions of doFork, executeFunction and doStateSwitch.
THEOREM EnginesKeepTheirMode == Spec => []ModeMatchesEngine
BY CpuRegistersSafety, PTL

================================================================================
