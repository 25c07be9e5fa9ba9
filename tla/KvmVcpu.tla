-------------------------------- MODULE KvmVcpu --------------------------------
(***************************************************************************)
(* The KVM interface of libs2e: the thread of the KVM client that calls    *)
(* KVM_RUN, its other threads that call ioctls of the VM, and the timer    *)
(* thread, with the lock, the signal and the flags between them            *)
(* (libs2e/src/s2e-kvm-vcpu.cpp, s2e-kvm-vm.cpp, s2e-kvm.cpp, and the      *)
(* execution loop in libcpu/src/cpu-exec.c).                               *)
(*                                                                         *)
(* The signal handler runs on the cpu thread, between any two of its steps. *)
(* What the guest does is arbitrary.  The client calls KVM_INTERRUPT only  *)
(* when it was told that it may; a thread in Clients may be the cpu thread *)
(* itself between two calls of KVM_RUN.                                    *)
(***************************************************************************)
EXTENDS Integers

CONSTANTS
  Clients,  \* threads of the KVM client other than the cpu thread
  CPU,      \* the cpu thread, as owner of the lock
  Nobody

ASSUME KvmVcpuAssumption ==
  /\ CPU \notin Clients
  /\ Nobody \notin Clients
  /\ CPU # Nobody

VARIABLES
  cpu,         \* where the cpu thread is
  resume,      \* where the coroutine continues when run() enters it
  lock,        \* owner of m_cpuLock
  inKvmRun,    \* m_inKvmRun
  callback,    \* m_handlingKvmCallback
  window,      \* m_cpuBuffer->request_interrupt_window
  ready,       \* m_cpuBuffer->ready_for_interrupt_injection
  exitRequest, \* env->exit_request
  riw,         \* env->kvm_request_interrupt_window
  ifFlag,      \* env->mflags & IF_MASK
  kvmIrq,      \* env->kvm_irq # -1
  hard,        \* env->interrupt_request & CPU_INTERRUPT_HARD
  signal,      \* CPU_EXIT_SIGNAL is pending on the cpu thread
  blocked,     \* CPU_EXIT_SIGNAL is blocked on the cpu thread
  slow,        \* timers_state.cpu_clock_scale_factor # 1
  inited,      \* m_cpuThreadInited
  client       \* where the other threads are

interrupts == <<ifFlag, kvmIrq, hard>>
kicks == <<exitRequest, riw>>
signals == <<signal, blocked, inited, slow>>
vcpuVars == <<cpu, resume, lock, inKvmRun, callback, window, ready, kicks, interrupts, signals,
          client>>

\* out       in the client, between two calls of KVM_RUN
\* injected  the same, after KVM_INTERRUPT
\* waiting   in run(), before the lock
\* start     at the top of the loop of coroutineFcn
\* loop      at the top of execution_loop
\* clear     there, about to reset exit_request
\* tb        in fetch_and_run_tb
\* after     after fetch_and_run_tb
\* done      cpu_exec has returned
\* io        the coroutine was left in the middle of an operation
\* cloned    in a cloned process, back in cloneProcess
\* aborted   an assertion failed
InCoroutine == {"start", "loop", "clear", "tb", "after", "done", "io", "cloned"}
CpuPC == {"out", "injected", "waiting", "aborted"} \cup InCoroutine
\* kicked: requestExit was called; holding: in the section of the lock;
\* dirtyKicked and dirty: the same in getDirtyLog.
ClientPC == {"idle", "kicked", "holding", "dirtyKicked", "dirty", "aborted"}

InjectionWindow(cb, w) == ~cb /\ w /\ ifFlag /\ ~kvmIrq

-------------------------------------------------------------------------------
VcpuInit ==
  /\ cpu = "out"
  /\ resume = "start"
  /\ lock = Nobody
  /\ inKvmRun = FALSE
  /\ callback = FALSE
  /\ window = FALSE
  /\ ready = FALSE
  /\ exitRequest = FALSE
  /\ riw = FALSE
  /\ ifFlag = FALSE
  /\ kvmIrq = FALSE
  /\ hard = FALSE
  /\ signal = FALSE
  /\ blocked = TRUE
  /\ inited = FALSE
  /\ slow = FALSE
  /\ client = [c \in Clients |-> "idle"]

\* VCPU::sendExitSignal.
SendExitSignal == signal' = (signal \/ inited)

\* VCPU::run up to lock(): the first call unblocks the signal; return at once
\* if an interrupt can be injected.
Run(w) ==
  /\ cpu \in {"out", "injected"}
  /\ window' = w
  /\ inited' = TRUE
  /\ blocked' = (blocked /\ inited)
  /\ ready' = InjectionWindow(callback, w)
  /\ cpu' = IF ready' THEN "out" ELSE "waiting"
  /\ UNCHANGED <<resume, lock, inKvmRun, callback, kicks, interrupts, signal, slow, client>>

\* A mutant: run() enters the guest without taking the lock.
RunLockedWithoutLock ==
  /\ cpu = "waiting"
  /\ lock' = CPU
  /\ inKvmRun' = TRUE
  /\ callback' = FALSE
  /\ cpu' = resume
  /\ UNCHANGED <<resume, window, ready, kicks, interrupts, signals, client>>

\* VCPU::run from lock() to coroutine_enter.
RunLocked ==
  /\ cpu = "waiting"
  /\ lock = Nobody
  /\ lock' = CPU
  /\ inKvmRun' = TRUE
  /\ callback' = FALSE
  /\ cpu' = resume
  /\ UNCHANGED <<resume, window, ready, kicks, interrupts, signals, client>>

\* coroutineFcn up to cpu_x86_exec.
Start ==
  /\ cpu = "start"
  /\ hard' = (hard \/ kvmIrq)
  /\ riw' = (riw \/ window)
  /\ exitRequest' = FALSE
  /\ cpu' = "loop"
  /\ UNCHANGED <<resume, lock, inKvmRun, callback, window, ready, ifFlag, kvmIrq, signals, client>>

\* execution_loop: process_interrupt_request delivers the interrupt, and an
\* exit request is not looked at.
DeliverInterrupt ==
  /\ cpu = "loop"
  /\ hard
  /\ ifFlag
  /\ hard' = FALSE
  /\ kvmIrq' = FALSE
  /\ ifFlag' = FALSE
  /\ cpu' = "clear"
  /\ UNCHANGED <<resume, lock, inKvmRun, callback, window, ready, kicks, signals, client>>

\* execution_loop without an interrupt: leave if an exit was requested.
TestExitRequest ==
  /\ cpu = "loop"
  /\ ~(hard /\ ifFlag)
  /\ cpu' = IF exitRequest THEN "done" ELSE "clear"
  /\ exitRequest' = FALSE
  /\ UNCHANGED <<resume, lock, inKvmRun, callback, window, ready, riw, interrupts, signals,
                 client>>

\* execution_loop resets exit_request: a request since the test is dropped.
ClearExitRequest ==
  /\ cpu = "clear"
  /\ cpu' = "tb"
  /\ exitRequest' = FALSE
  /\ UNCHANGED <<resume, lock, inKvmRun, callback, window, ready, riw, interrupts, signals,
                 client>>

\* Generated code of the guest: chained blocks run on until the check at the
\* start of a block finds an exit request.  A write to the task priority
\* register requests one (s2e_kvm_mmio_write).
GuestStep ==
  /\ cpu = "tb"
  /\ ~exitRequest
  /\ ifFlag' \in BOOLEAN
  /\ slow' \in BOOLEAN
  /\ exitRequest' \in BOOLEAN
  /\ UNCHANGED <<cpu, resume, lock, inKvmRun, callback, window, ready, riw, kvmIrq, hard,
                 signal, blocked, inited, client>>

\* The chain of blocks ends, with an exception that the guest handles, or one
\* that ends cpu_exec (the cpu halts, or its path is no longer runnable).
TbReturns ==
  /\ cpu = "tb"
  /\ cpu' \in {"after", "loop", "done"}
  /\ UNCHANGED <<resume, lock, inKvmRun, callback, window, ready, kicks, interrupts, signals,
                 client>>

\* execution_loop after fetch_and_run_tb.
AfterTb ==
  /\ cpu = "after"
  /\ IF riw /\ ifFlag
     THEN riw' = FALSE /\ cpu' = "done"
     ELSE cpu' = "loop" /\ UNCHANGED riw
  /\ UNCHANGED <<resume, lock, inKvmRun, callback, window, ready, exitRequest, interrupts, signals, client>>

\* The guest accesses a device, or the state of the devices is saved or
\* restored: the client handles it and run() comes back to the same place.
Callback ==
  /\ cpu \in {"start", "tb"}
  /\ cpu' = "io"
  /\ resume' = cpu
  /\ UNCHANGED <<lock, inKvmRun, callback, window, ready, kicks, interrupts, signals, client>>

\* A mutant: m_inKvmRun is not reset.
YieldInKvmRun ==
  /\ cpu = "done"
  /\ resume' = "start"
  /\ callback' = FALSE
  /\ ready' = InjectionWindow(FALSE, window)
  /\ lock' = Nobody
  /\ cpu' = "out"
  /\ UNCHANGED <<inKvmRun, window, kicks, interrupts, signals, client>>

\* cpu_exec has returned: coroutineFcn yields and VCPU::run returns.
Yield ==
  /\ cpu = "done"
  /\ resume' = "start"
  /\ inKvmRun' = FALSE
  /\ callback' = FALSE
  /\ ready' = InjectionWindow(FALSE, window)
  /\ lock' = Nobody
  /\ cpu' = "out"
  /\ UNCHANGED <<window, kicks, interrupts, signals, client>>

\* VCPU::run after a callback.
ReturnCallback ==
  /\ cpu = "io"
  /\ inKvmRun' = FALSE
  /\ callback' = TRUE
  /\ ready' = FALSE
  /\ lock' = Nobody
  /\ cpu' = "out"
  /\ UNCHANGED <<resume, window, kicks, interrupts, signals, client>>

\* VCPU::interrupt: the client injects when it was told that it may.
Interrupt ==
  /\ cpu = "out"
  /\ ready
  /\ hard' = TRUE
  /\ kvmIrq' = TRUE
  /\ cpu' = IF ~callback /\ ~inKvmRun /\ ifFlag /\ ~hard THEN "injected" ELSE "aborted"
  /\ UNCHANGED <<resume, lock, inKvmRun, callback, window, ready, kicks, ifFlag, signals,
                 client>>

\* VCPU::cpuExitSignal.
CpuExitSignal ==
  /\ signal
  /\ ~blocked
  /\ signal' = FALSE
  /\ riw' = TRUE
  /\ exitRequest' = TRUE
  /\ UNCHANGED <<cpu, resume, lock, inKvmRun, callback, window, ready, interrupts, blocked, inited,
                 slow, client>>

\* A mutant: the test of the scale factor is inverted.
TimerCbInverted ==
  /\ slow
  /\ SendExitSignal
  /\ UNCHANGED <<cpu, resume, lock, inKvmRun, callback, window, ready, kicks, interrupts, blocked, inited,
                 slow, client>>

\* S2EKVM::timerCb.
TimerCb ==
  /\ ~slow
  /\ SendExitSignal
  /\ UNCHANGED <<cpu, resume, lock, inKvmRun, callback, window, ready, kicks, interrupts, blocked, inited,
                 slow, client>>

\* VM::setUserMemoryRegion and VM::memoryReadWrite: requestExit ...
RequestExit(c) ==
  /\ client[c] = "idle"
  /\ SendExitSignal
  /\ client' = [client EXCEPT ![c] = "kicked"]
  /\ UNCHANGED <<cpu, resume, lock, inKvmRun, callback, window, ready, kicks, interrupts, blocked, inited,
                 slow>>

\* ... lock, and in setUserMemoryRegion the assertion that no guest runs ...
ClientLock(c) ==
  /\ client[c] = "kicked"
  /\ lock = Nobody
  /\ lock' = c
  /\ \E region \in BOOLEAN :
       client' = [client EXCEPT ![c] = IF region /\ inKvmRun THEN "aborted" ELSE "holding"]
  /\ UNCHANGED <<cpu, resume, inKvmRun, callback, window, ready, kicks, interrupts, signals>>

\* ... and unlock.
ClientUnlock(c) ==
  /\ client[c] = "holding"
  /\ lock' = Nobody
  /\ client' = [client EXCEPT ![c] = "idle"]
  /\ UNCHANGED <<cpu, resume, inKvmRun, callback, window, ready, kicks, interrupts, signals>>

CpuNext ==
  \/ \E w \in BOOLEAN : Run(w)
  \/ RunLocked
  \/ Start
  \/ DeliverInterrupt
  \/ TestExitRequest
  \/ ClearExitRequest
  \/ GuestStep
  \/ TbReturns
  \/ AfterTb
  \/ Callback
  \/ Yield
  \/ ReturnCallback
  \/ Interrupt
  \/ CpuExitSignal

ClientNext == \E c \in Clients : RequestExit(c) \/ ClientLock(c) \/ ClientUnlock(c)

VcpuNext == CpuNext \/ TimerCb \/ ClientNext

VcpuSpec == VcpuInit /\ [][VcpuNext]_vcpuVars

-------------------------------------------------------------------------------
\* VM::getDirtyLog.  tryLock() discards the result of pthread_mutex_trylock and
\* unlock() releases the lock whoever holds it.
DirtyLogRequest(c) ==
  /\ client[c] = "idle"
  /\ SendExitSignal
  /\ client' = [client EXCEPT ![c] = "dirtyKicked"]
  /\ UNCHANGED <<cpu, resume, lock, inKvmRun, callback, window, ready, kicks, interrupts, blocked, inited,
                 slow>>

DirtyLogTryLock(c) ==
  /\ client[c] = "dirtyKicked"
  /\ lock' = IF lock = Nobody THEN c ELSE lock
  /\ client' = [client EXCEPT ![c] = "dirty"]
  /\ UNCHANGED <<cpu, resume, inKvmRun, callback, window, ready, kicks, interrupts, signals>>

DirtyLogUnlock(c) ==
  /\ client[c] = "dirty"
  /\ lock' = Nobody
  /\ client' = [client EXCEPT ![c] = "idle"]
  /\ UNCHANGED <<cpu, resume, inKvmRun, callback, window, ready, kicks, interrupts, signals>>

DirtyLogNext ==
  \/ VcpuNext
  \/ \E c \in Clients : DirtyLogRequest(c) \/ DirtyLogTryLock(c) \/ DirtyLogUnlock(c)

DirtyLogSpec == VcpuInit /\ [][DirtyLogNext]_vcpuVars

\* VCPU::cloneProcess in the child of S2E::fork, which is called from a timer:
\* the client starts its threads again, and the new cpu thread, whose signals it
\* blocks, resumes the coroutine.
CloneProcess ==
  /\ cpu = "start"
  /\ cpu' = "io"
  /\ resume' = "cloned"
  /\ client' = [c \in Clients |-> "idle"]
  /\ signal' = FALSE
  /\ UNCHANGED <<lock, inKvmRun, callback, window, ready, kicks, interrupts, blocked, inited,
                 slow>>

\* S2EKVM::initTimerThread blocks all signals of the thread that calls it.
InitTimerThread ==
  /\ cpu = "cloned"
  /\ blocked' = TRUE
  /\ cpu' = "start"
  /\ UNCHANGED <<resume, lock, inKvmRun, callback, window, ready, kicks, interrupts, signal, inited, slow, client>>

CloneNext == VcpuNext \/ CloneProcess \/ InitTimerThread

-------------------------------------------------------------------------------
\* The cpu thread is scheduled and leaves a chain of blocks when an exit is
\* requested.  The timer thread runs and a pending signal is delivered; neither
\* happens only at the few instructions between the test and the reset of
\* exit_request, for the timer has a period of 100 ms.  Nothing else is assumed
\* of the guest.
CpuFairness ==
  /\ WF_vcpuVars(Start)
  /\ WF_vcpuVars(DeliverInterrupt)
  /\ WF_vcpuVars(TestExitRequest)
  /\ WF_vcpuVars(ClearExitRequest)
  /\ WF_vcpuVars(exitRequest /\ TbReturns)
  /\ WF_vcpuVars(AfterTb)
  /\ WF_vcpuVars(Yield)
  /\ WF_vcpuVars(ReturnCallback)
  /\ WF_vcpuVars(InitTimerThread)
  /\ SF_vcpuVars(cpu # "clear" /\ CpuExitSignal)
  /\ SF_vcpuVars(cpu # "clear" /\ TimerCb)

FairSpec == VcpuSpec /\ CpuFairness

CloneSpec == VcpuInit /\ [][CloneNext]_vcpuVars /\ CpuFairness

-------------------------------------------------------------------------------
\* The variables have the types of the fields of VCPU and CPUX86State, and the
\* coroutine continues at one of the places where the code yields.
VcpuTypeOK ==
  /\ cpu \in CpuPC
  /\ resume \in {"start", "tb", "cloned"}
  /\ lock \in Clients \cup {CPU, Nobody}
  /\ inKvmRun \in BOOLEAN /\ callback \in BOOLEAN /\ window \in BOOLEAN /\ ready \in BOOLEAN
  /\ exitRequest \in BOOLEAN /\ riw \in BOOLEAN
  /\ ifFlag \in BOOLEAN /\ kvmIrq \in BOOLEAN /\ hard \in BOOLEAN
  /\ signal \in BOOLEAN /\ blocked \in BOOLEAN /\ inited \in BOOLEAN /\ slow \in BOOLEAN
  /\ client \in [Clients -> ClientPC]

\* No assertion fails: setUserMemoryRegion never finds a guest running, and an
\* interrupt is only injected outside of a run and of a callback, with
\* interrupts enabled and none pending (VCPU::interrupt).
NoAssertionFails ==
  /\ cpu # "aborted"
  /\ \A c \in Clients : client[c] # "aborted"

\* A thread that changes or reads the memory map has it for itself: the guest
\* does not run and no other thread is in the section.
MemoryAccessIsExclusive ==
  \A c \in Clients : client[c] \in {"holding", "dirty"} =>
    /\ cpu \notin InCoroutine
    /\ \A d \in Clients \ {c} : client[d] \notin {"holding", "dirty"}

\* A thread that asks the guest to stop is not starved by it: the cpu thread
\* gives up the lock, although an exit request can be overwritten.  While KLEE
\* slows down the clock the timer thread does not repeat the signal.
KickReachesCpu ==
  <>[]~slow => \A c \in Clients : (client[c] = "kicked") ~> (lock # CPU)
===============================================================================
