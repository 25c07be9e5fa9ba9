# Verification of the S2E engine

S2E runs a whole virtual machine symbolically. A KVM client (a patched QEMU)
talks to `libs2e`, which emulates `/dev/kvm`; `libcpu` translates and runs guest
code; `libs2ecore` and `klee` interpret it when it touches symbolic data, fork the
machine at branches, schedule the resulting execution states and spread them over
several processes; plugins observe and steer all of this.

This directory holds TLA+ models of the parts of S2E whose correctness depends on
the order of many small steps, TLC runs on small instances of them, and TLAPS
proofs for instances of any size. `PROJECT.json` lists the components, the runs,
the lines each definition models, the hazards and the theorems.

## 1. The system and its parts

| Part | Source | Module | Proofs |
|---|---|---|---|
| Copy-on-write memory of the states | `klee/lib/Core/AddressSpace.cpp`, `klee/include/klee/AddressSpace.h` | `AddressSpace`, abstract: `IsolatedMemories` | `AddressSpaceProofs` |
| Bytes of an object and their caches | `klee/lib/Core/Memory.cpp`, `klee/include/klee/Memory.h` | `ObjectState` | `ObjectStateProofs` |
| Registers, modes, state switches | `libs2ecore/src/S2EExecutor.cpp`, `S2EExecutionState*.cpp` | `CpuRegisters` | `CpuProofs` |
| Life cycle and scheduling of states | `klee/lib/Core/Executor.cpp`, `Searcher.cpp`, `S2EExecutor.cpp`, `libcpu/src/cpu-exec.c` | `ExecutorStates` | `ExecutorStatesProofs` |
| Instance table, process creation | `libs2ecore/src/S2E.cpp`, `Synchronization.cpp` | `ProcessPool` | `ProcessPoolProofs` |
| Load balancing over processes | `S2EExecutor::doLoadBalancing` | `LoadBalancing` (extends `ProcessPool`) | `ProcessPoolProofs` |
| Merging of paths | `libs2eplugins/.../Searchers/MergingSearcher.cpp` | `MergingSearcher` | `MergingSearcherProofs` |
| Software TLB, RAM TLB, memory cache | `libs2ecore/src/S2EExecutionStateTlb.cpp`, `AddressSpaceCache.cpp`, `libcpu/src/exec-tlb.c` | `StateTlb` | `StateTlbProofs` |
| Translation block cache | `libcpu/src/exec-tb.c`, `cpu-exec.c`, `exec.c`, `exec-memdbg.c` | `TbCache` | `TbCacheProofs` |
| KVM interface: threads, lock, exit signal | `libs2e/src/s2e-kvm*.cpp`, `libcpu/src/cpu-exec.c` | `KvmVcpu` | `CpuProofs` |

`MC<module>.tla` and the `.cfg` files instantiate each module for TLC. A module
`M` holds the state, the actions and the properties; operators whose comment
calls them mutants are deliberately wrong variants of an action, used to see
that the property they are paired with in `PROJECT.json` can fail.

How the parts fit together: a guest instruction that forks creates a state
(`ExecutorStates`), which copies the address space (`AddressSpace`) and the
registers (`CpuRegisters`); an access to memory goes through the address space to
an object (`ObjectState`), or around it, directly from generated code, when the
TLB allows that (`StateTlb`); the code itself comes from a cache that must notice
when guest memory changes (`TbCache`); a timer between two calls of `cpu_exec` (`KvmVcpu` says
when those happen) may switch states, terminate them or fork the process
(`LoadBalancing`, `ProcessPool`); and paths that were forked may be joined again
(`MergingSearcher`).

In every module `Spec` (`BalanceSpec` in `LoadBalancing`, `TbSpec` in `TbCache`, `VcpuSpec`
in `KvmVcpu`) is the system for which the properties hold. Where the code has a step
that breaks one of them, the step is an action of the module too, and a second specification adds it: `MixedSpec`,
`PinningSpec`, `DirtyLogSpec`, `CloneSpec`, `SymbolicAddressSpec`, `HostWriteSpec`,
`KillSpec`. Section 3 says what happens under each. What is left out altogether is
said in the description of the module.

## 2. The modules

### AddressSpace and IsolatedMemories

State: per execution state the map from addresses to objects (`objects`), the
direct-mapped lookup cache (`cache`), the copy-on-write epoch (`cowKey`), and the
buffers, which are shared and reference counted (`store`). Actions: `BindObject`,
`UnbindObject`, `Read`, `WriteOwned`, `WriteShared` (the copy in `getWriteable`),
`SplitMemoryObject`, `Fork`, `Delete`. Lookups change the cache, as in the code.

`IsolatedMemories` is what the module promises: every state has a memory of its
own, fork copies it, a write changes one byte of one state. `ImplementsIsolatedMemories`
maps what a state would read through `findObject` to that memory.

Abstracted: contents are opaque values (how a byte is represented is
`ObjectState`'s subject), an address is a page and an offset, and a multi-byte
access is one action per object.

### ObjectState

State: concrete mask, flush mask, known expressions and update list of one page,
split or not. Actions: constant and symbolic-offset reads and writes, `split`, and the
stores of generated code, helpers and devices that go straight to the concrete buffer
(`DirectWrite`; `StateTlb` says when they may).
Expressions are evaluated under one arbitrary assignment of the symbolic
variables, so that an expression is its value; what holds for every such
assignment holds of the expressions. `contents` and `outdated` are history variables:
what was last written to each byte, and the bytes that were stored to directly since
they were flushed to the update list.

A direct store leaves the flush mask alone. The byte is still read from the buffer, but
once a write at a symbolic offset makes the object symbolic (`Memory.cpp:271`), the old
value in the update list is read. So `ReadsAreExact` promises that a byte reads as it was
last written if it is concrete or is not `outdated`; `EveryReadIsExact`, without the
exception, fails (section 3).

### CpuRegisters

State: the native `env`, each state's `m_symbolicRegs` and saved copy of the
shared region, its mode, and the flag `g_s2e_fast_concrete_invocation`. Actions:
mode switches, native and KLEE accesses, forks, state switches, delayed requests
for symbolic execution. `guest` is a history variable: what the code of each state
last wrote. `Spec` assumes that clients leave the symbolic registers of a state
that runs concretely alone (`Unmixed`); `MixedSpec` drops the assumption. States are
not merged.

### ExecutorStates

State: the sets `states`, `addedStates`, `removedStates`, `deletedStates`, the
searcher's own set and its sticky state, and per state zombie, yielded, atomic
and suspended. `pc` says in which piece of code the one thread is: running guest
code, unwinding a `CpuExitException`, outside of `cpu_exec`, or selecting. Both
KLEE searchers are covered (`useRandomSearch`); iteration over a pointer set is a
choice. `suspendState`'s obligation not to terminate what is suspended is assumed
of its callers. `YieldIsServed` is about yields outside of atomic sections. `freed` is a
history variable: a state is freed once, and by the first switch after its termination.

### StateTlb

State: per execution state the objects bound to the pages, the entries of the TLB
with the flags that take direct access away (`TLB_SYMB`, `TLB_NOT_OURS`), `m_tlbMap`
from objects to entries, the memory cache and the RAM TLB; the buffers are shared.
Actions: `TlbFill`, `TlbFillMmio`, the flushes, stores of generated code through an
entry (`FastWrite`) and of helpers and devices through the RAM TLB (`RamWrite` for
`st_raw`, `DmaWrite`, `TransferRamRead`, `TransferRamWrite`), accesses through the address
space (`SlowWrite`, of any live state), splits, forks, state switches, deletions.

The RAM TLB has uncounted pointers to an object and to its buffer. `st_raw` uses the
buffer only; a DMA write also calls `getWriteable` on the object
(`S2EExecutionState.cpp:819`). The split of a page that has no entry in the TLB frees the
object and leaves the entry, and a DMA write through it is undefined behaviour. `DmaWrite`
has the case in which the object is still that of the page. `RamObjectsExist` says that
this is the only case, and fails (section 3). What is checked and proved of the RAM TLB is
about the buffers.

A page is one object here: `AddressSpaceSafety` says that its pieces are owned and
copied together. `SymbolicAddressSpec` adds the two steps of an access at a symbolic
address that do not keep the entries up to date: the split of a page that has to be
copied first, and the write at a symbolic offset. Left out: which virtual page an
entry maps, large pages, the dirty mask, memory tracing, objects that are shared
concrete.

### TbCache

State: the blocks with their links in `tb_phys_hash`, in the lists of their pages and
in the lists of jumps (`cache`), the code bitmaps, `tb_jmp_cache`, the mapping of
virtual pages, the dirty flags and the TLB's permission for fast stores, the running
block, and the block whose exit will be patched (`prev`). Actions: the three ways
`tb_find_fast` and `tb_find_slow` find a block, leaving a block by an exit or
for good, stores of the guest through the TLB and through the not-dirty path
(with the choice to build the bitmap, and self-modification that leaves the block),
writes of devices, writes that the cache is not told of, TLB fills, remapping, flushes,
and state switches. `stale` is a history variable: the blocks whose bytes were written
since they were translated. A state switch makes every block stale, since all states
share the cache.

Two ways of writing memory invalidate nothing (`UnseenWrite`): `stl_phys_notdirty`, by
which the MMU updates page tables (`exec.c:435`: "the code inside is not invalidated"),
and `S2EExecutionStateMemory::write`, by which plugins write. The blocks that only such
writes made stale are in the history variable `unseen`, and the properties about current
blocks except them: they are about the stores of the guest, the writes of devices and
the switches between states.

A block is put at the head of the lists of its pages and blocks are numbered as they
are allocated, so a list is the set of its entries, newest first. A write that hits
several blocks invalidates them in one step, `TbPhysInvalidate`, where the code takes
one after the other; the theorem `InvalidateInTurn` says why the two agree.

`TbSpec` leaves out these cases, for each of which TLC finds a property violated when
the case is added:

- a device write that crosses the end of a page (`HostWriteSpec`, `exec-memdbg.c:204`);
- remapping the second page of a block that spans two pages: `tb_find_fast` compares
  the first page only (`cpu-exec.c:120`);
- a flush requested while a block runs, and the one in `tb_gen_code` when the code of the
  block does not fit: the previous block is patched after it was freed, for `tb_flush` does
  not set `tb_invalidated_flag` (`cpu-exec.c:156`, `exec-tb.c:247`).

It leaves out blocks whose two parts are mapped to the same page of RAM for another
reason. Such a block is on the list of the page twice, and a device write that hits both
parts would invalidate it twice: the second `tb_remove` (`exec-tb.c:144`) then looks for
it in a hash chain it has left. A set of blocks that is invalidated has every block
once, so the model does not show this, and TLC finds no violation if the case is added.

It also leaves out that an instruction that modifies itself at the end of its block is
found by comparing program counters (`exec-tb.c:408`).

### MergingSearcher

State: the pools of the merge groups, the searcher's active states and its current
state, the counter of group numbers, per state its group and whether it is pinned, and
the engine's sets of states. `paths` is a history variable: the paths each state
stands for. Actions: `Fork`, `MergeStart`, the three cases of `mergeEnd`
(`MergeEndAlone`: nobody else is left; `MergeEndFirst`: the path is suspended;
`MergeEndNext`: it is merged into the first one, or that fails), `Terminate`,
`InstructionDone` (the batched update), `StateSwitchTimer` and `AllTerminated`, which
both run load balancing first. Load balancing is seen from one process, which may lose
any set of states that are not pinned.

`Spec` assumes that every path of a group arrives at `s2e_merge_group_end`, as
`docs/src/StateMerging.rst` describes a group ("whose leaves end at
`s2e_merge_group_end()`"); `KillSpec` terminates such paths as well. Whether two
states can be merged is a choice, the merged memory and registers are left out, and so
are atomic sections and `S2EExecutor::suspendState`. Numbers of groups do not wrap.

### ProcessPool and LoadBalancing

One step is one section between `m_sync.acquire()` and `release()`, plus the
operating system's `fork`, which may fail. `LoadBalancing` extends it with the
states each process holds, the split chosen by plugins (any two sets that cover
the states), renumbering, and the dropping of the other half. `PinningSpec` adds
pinned states.

### KvmVcpu

The cpu thread (`VCPU::run`, `coroutineFcn`, `execution_loop`), the threads of the
client that change or read guest memory, and the timer thread. The signal handler
is an action that may happen between any two steps of the cpu thread, the test and
the reset of `exit_request` included. The guest is arbitrary: it may loop forever
in chained blocks, toggle the interrupt flag, access a device (`Callback`), halt.
One path is followed; what a state switch does to `env` is in `CpuRegisters`.
`VcpuSpec` has no dirty log and no clone: `DirtyLogSpec` and `CloneSpec` add one each.
A process that exits is not modelled. Reads and writes
of `kvm_request_interrupt_window` are taken to be atomic with regard to the
handler, which runs on the same thread.

## 3. The runs

Passing runs (state counts are distinct states):

| Run | Instance | Checks |
|---|---|---|
| `address_space` (17,000) | 3 states, 1 page of 2 bytes, 2 values, 4 buffers, 1 cache slot; states other than the first, buffers and values are symmetric | ownership implies a private buffer, pieces owned together, cache agrees with the map, refinement of `IsolatedMemories` |
| `load_balancing` (475,000) | 3 processes, 3 instances, 4 state ids | no assertion fails, the count is exact, slots match live instances, guids unique over all processes, no state lost |
| `cpu_registers` (1,700,000) | 2 states, 2 registers, 1 shared cell | each state reads what its own code wrote, the fast path is sound, engines match modes |
| `object_state` (52,000) | a page of 3 bytes, pieces of 2 bytes, 2 values | reads exact but for outdated bytes, cache invariants of `Memory.cpp`, a split loses nothing |
| `executor_states` (684,000) | 4 states | no assertion fails, nothing freed reachable, live paths kept, searcher agrees, a switch frees what was terminated, terminated and yielding states leave the processor |
| `kvm_vcpu` (7,100) | cpu thread, timer thread, 2 client threads | no assertion fails, memory access is exclusive, a kick stops the guest |
| `state_tlb` (232,000) | 2 states, 1 page of 2 pieces, 3 buffers, 1 entry in each TLB | `m_tlbMap` exact, direct loads current, symbolic pages take the slow path, direct stores private, memory cache coherent, steps change one state |
| `tb_cache` (247,000) | 2 virtual and 2 physical pages of 2 units, 2 blocks of one exit | blocks that can be found and blocks that are entered are current but for unseen writes, code pages protected, page lists, bitmaps and jump lists exact |
| `merging_searcher` (136,000) | 5 states, 2 groups | scheduled states are live, pools exact, suspended paths awaited, paths neither lost nor doubled |

The runs check what can go wrong in several steps. Each module also has a type
invariant; it is a part of what the theorems of the module state, or of the inductive
invariant behind them, as are `OwnersWithinEpoch` (`AddressSpace`) and
`FlushedBytesAreCurrent` (`ObjectState`).

The bounds are the smallest at which every disturbing case occurs: three
generations of address spaces (a grandparent's buffer shared by two
descendants), two colliding cache entries, a fork that is refused because another
process took the last instance meanwhile, one that fails while another child
is about to register, two unfiled forks while a third state waits and a fourth is
terminated, two threads that compete for the cpu lock, two states with entries for
one buffer of which a third copy is being made, a block that spans two pages next to
one that jumps to it, a group that has a waiting path, two others and a state outside
of it while a second group is open. Deadlock checking is
switched off only where the system may stop: all processes have exited, all
states are terminated, or a bound on identities is exhausted.

Runs that find a violation. Each one checks a statement made by the code or its
comments, quoted in `PROJECT.json`:

| Run | What happens |
|---|---|
| `kvm_vcpu_dirty_log` | `getDirtyLog` releases the lock of the cpu thread while the guest runs |
| `state_tlb_symbolic` | a write at a symbolic address makes a page symbolic and the entries of the TLB still allow direct access to it |
| `tb_cache_host_write` | a device write that crosses the end of a page leaves the blocks on the second page valid |

Other disagreements can be reproduced by changing the SPECIFICATION of a passing run, or
by adding a property to it:

| Specification, property | What happens |
|---|---|
| `LoadBalancing!PinningSpec`, `GuidsAreUnique` | a pinned state lives on in both processes with one guid; `S2EExecutionState.h:81`: "This uniquely identifes a state across all S2E instances." |
| `CpuRegisters!MixedSpec`, `RegistersAreExact` | a symbolic register made concrete by a client of a concretely running state is read back stale |
| `KvmVcpu!CloneSpec`, `KickReachesCpu` | in a cloned process the exit signal is blocked for good on the cpu thread |
| `MergingSearcher!KillSpec`, `SuspendedStatesAreAwaited` | a group is opened, forks, one path arrives and is suspended, the other is terminated: nothing resumes the first one, and the process exits when no other state is left |
| `ObjectState!Spec`, `EveryReadIsExact` | a read at a symbolic offset flushes a byte, a direct store changes it in the buffer, a write at a symbolic offset makes the object symbolic: the byte reads as it was flushed |
| `StateTlb!Spec`, `RamObjectsExist` | a device reads a page that has no entry in the TLB, the page is split: the entry of the RAM TLB keeps a pointer to the object that was freed |
| `TbCache!TbSpec`, `AllBlocksAreCurrent` | the MMU or a plugin writes to bytes that were translated: the block can still be found |

One more needs no other specification: a state that yields inside of an atomic section
keeps its flag, `selectNextState` returns it without asking the searcher
(`S2EExecutor.cpp:919`), and `cpu_exec` leaves at once every time (`cpu-exec.c:500`),
so that nothing runs any more. This is why `YieldIsServed` excludes atomic sections.

## 4. Fairness

Only two modules assume any.

`ExecutorStates!FairSpec`: the timer that selects a state runs again and again
(`libcpu_run_all_timers` is called on every iteration of the coroutine), and the
steps of one selection or one unwinding follow each other. The guest owes
nothing.

`KvmVcpu!FairSpec`: the cpu thread is scheduled, and a chain of blocks ends once
`exit_request` is set, because every block begins with a test of it
(`gen_tb_start`). The timer thread and signal delivery are strongly fair outside
of the few instructions between the test of `exit_request` and its reset: a signal
that arrives there is dropped, and the assumption is that a timer with a period of
100 ms does not hit that window every single time. `KickReachesCpu` is stated for
behaviours in which slow symbolic code eventually stays off, since the timer
thread is silent while it runs. It promises that the cpu thread lets go of the
lock; it does not promise that a particular thread gets it, for a `pthread_mutex`
is not fair.

## 5. What is proved

All theorems hold for any value of the constants that satisfies the named `ASSUME`
of the module.

| Theorem | Statement | Argument |
|---|---|---|
| `AddressSpaceSafety` | the safety invariants of `AddressSpace` | buffers are shared only within a page; if one sharer is owned, all belong to one state (`BufferSharing`); a page is unbound, whole or fully split with one owner (`PageShape`); the cache holds only bound objects (`CacheExact`) |
| `AddressSpaceRefinement` | `AddressSpace` implements `IsolatedMemories` | per action: what every state reads changes as the abstract action says or not at all |
| `PoolSafety` | the safety invariants of `ProcessPool` | the invariants are not inductive alone: `Fresh` says that ids handed out and not yet used differ from all ids and directories; counting uses `FiniteSetTheorems` |
| `BalanceKeepsPool` | the same invariants for `LoadBalancing` | every step of load balancing is a step of the pool or leaves the pool alone (`BalanceImplementsPool`), so `PoolSafety` carries over |
| `GuidsIdentifyStates`, `SplittingLosesNothing` | `GuidsAreUnique` and `NoStateIsLost` for `BalanceSpec` | neither is inductive: during a split a guid is held twice, or only reserved in `newIds`. The invariant counts claims, the guids a process will go on using (`Kept`) and those it has reserved for common states (`Renumbered`): claims are disjoint and below the shared counter (`ClaimsAreDisjoint`), the two sets of a split cover the states (`SplitIsComplete`), and what is to be explored is claimed (`EveryGuidIsKept`) |
| `CpuRegistersSafety` | the safety invariants of `CpuRegisters` | needs `NativeIsConcrete`: native code only runs in a state without symbolic registers |
| `ObjectStateSafety` | the safety invariants of `ObjectState` | needs `FlushedNeedsMask` and `OutdatedWereFlushed`: bytes are flushed only if there is a flush mask, and only flushed bytes are behind in the update list, so that the next flush leaves no other byte behind |
| `ExecutorStatesSafety` | the safety invariants of `ExecutorStates` | the sets a state can be in are disjoint (`Disjoint`), know only created states, and a state is terminated exactly if it is on its way out (`Terminated`, `Filed`) |
| `SwitchesReclaimMemory` | `SwitchFreesTerminated`, an action property | the same invariant: a terminated state is filed in `removedStates`, waits in `m_deletedStates` or was freed (`Terminated`), and `selectNextState` has emptied the first before it chooses (`Filed`) |
| `KvmVcpuSafety` | no assertion fails, memory access is exclusive | lock, `m_inKvmRun` and the place of the cpu thread agree (`LockAgrees`); pending bit and number of an interrupt agree (`InterruptsAgree`) |
| `MergingSearcherSafety` | scheduled states are live, pools exact, suspended paths awaited | the searcher's sets lie within the engine's (`SetsAgree`); the first state of a pool is a live, unscheduled member of its group, and members are pinned, so that load balancing leaves them (`GroupsAgree`) |
| `MergingKeepsPaths` | `PathsAreKept` | the same invariant with one owner for each path (`PathsAreOwned`); one lemma says what the batched update does to the pools (`UpdateKeepsInvariants`) and serves every action that calls it |
| `TlbMapStaysExact`, `TlbReadsStayCurrent`, `TlbFlagsStayExact`, `TlbWritesStayPrivate`, `MemcacheStaysCoherent` | the safety invariants of `StateTlb` | every entry that points to an object, direct or not, has the object that is bound, its buffer and its concrete status, and may only be written if the object is owned (`EntryOK`); `m_tlbMap` is exact, so `updateTlb` reaches these entries (`TlbOK`); buffers are shared between states only, at one page, and never with an owner (`BufferSharing`); an entry of the RAM TLB may outlive a split and then points to the unsplit object, but still has the buffer of an owned page, and one for a page that is not owned exists only while the page is concrete, which is why `updateRamTlb` at a copy is enough (`RamEntryOK`) |
| `StatesStayIsolated` | `StepsAreIsolated`, an action property | the same invariant: a step touches the TLBs and pages of one state, and the buffers of the others stay (`OneStateStep`) |
| `TbBlocksAreCurrent`, `TbPagesAreProtected`, `TbPageDescsAreExact`, `TbShortcutsAreCurrent` | the safety invariants of `TbCache` | see below |
| `TbEntersCurrent` | `EnteredBlocksAreCurrent`, an action property | the same invariant: see below |
| `InvalidateInTurn` | `TbPhysInvalidate` of a set is that of its newest block, then of the others | the exits that are reset and the lists they are taken from agree, because an exit of an older block is still listed when its target goes |

The argument for `TbCache`. That a block is current is a matter of the writes: as long
as no flush is pending, a page with blocks is protected, so a write of the guest or of a
device to it is seen, and the lists and the bitmap of the page have every block it can
hit. Hence no block is stale but for unseen writes. That a block is mapped where it was translated is a matter of how it is entered,
and `ShortcutsAreCurrent` is not inductive for it. The invariant `TbInv` adds:

- a patched jump leads to a block on one page, which is a page of the block it leaves
  (`Follows`), so that one is mapped if the other is. This does not mention the page
  tables, and so survives remapping;
- the running block may be invalidated by its own store, and its exits then lead where
  they led. So the running block lies in a set of blocks that native jumps do not leave
  and of which the valid ones are mapped (`ClosedUnderJumps`);
- the exits of a block that was invalidated are closed, so that `tb_add_jump` patches
  none of them (`LinkOK`);
- the second page of a block is compared by no lookup: it is mapped because the page is
  not remapped while the block can be found (`SecondPagesAreMapped`). This is where the
  proof uses one of the restrictions of `TbSpec`.

`InvalidateInTurn` is one step of an induction over the blocks that a write hits: the
cache after each invalidation satisfies the hypothesis of the theorem again
(`InvalidateKeepsOK`). The induction itself is over data and is not formalised.

A few more theorems single out a conjunct of those above that a run checks under its
own name: `PiecesStayTogether`, `CacheStaysCoherent` (`AddressSpace`), `ForksNeverAbort`
(`LoadBalancing`), `FastPathStaysSound`, `EnginesKeepTheirMode` (`CpuRegisters`),
`CachesStayConsistent`, `SplitsLoseNothing` (`ObjectState`), `ExecutorNeverAborts`,
`NoLivePathIsLost`, `SearcherStaysInStep` (`ExecutorStates`), `VcpuNeverAborts`
(`KvmVcpu`), `SelectedStatesStayLive`, `PoolsStayExact` (`MergingSearcher`).

Each invariant proof has a lemma per action. Steps of the same kind share one: in
`StateTlbProofs` a store around the address space is `PrivateStore`, a change of the
TLBs `TlbStep`, and an object put in the place of another one, by a write, a copy or a
split, `ReplacedStep`. The step from the invariant to the theorem is temporal and uses
nothing else. `CpuProofs` has the proofs of two modules that share nothing,
`CpuRegisters` and `KvmVcpu`. `ProcessPoolProofs` needs facts about the cardinality of finite sets. It
states them as definitions (`LibraryFacts`), takes them as an assumption of the lemmas
that count, and proves them at its end from `FiniteSetTheorems`, so that the theorems
assume nothing.

TLC finds no state of the passing runs' instances that violates the inductive invariant
of the module (`BalanceInv` too). For `StateTlb` the owners of objects in `TlbOK` were
bounded by 4, an epoch no state of the instance exceeds, because `Object` is infinite. A
search with two pages whose entries collide in the RAM TLB was not finished: none of the
8.2 million distinct states of its first levels violates the invariant.

Every safety invariant and action property of the passing runs has a theorem. Only
model-checked: the liveness properties (`TerminatedIsReplaced`, `YieldIsServed`,
`KickReachesCpu`), which are out of the prover's reach, as is `ENABLED`.

## 6. What is not modelled

- Expressions, constraint simplification and the solver chain: pure algebra and
  an external oracle.
- The semantics of LLVM and x86 instructions, the code generator.
- Device snapshots: opaque byte arrays that the client saves and restores.
- Plugins other than where they act on the engine (resource monitor, the built-in
  instructions).
- The memory and the registers of a merged state (`S2EExecutor::merge`,
  `S2EExecutionState::merge`): most of it is algebra on expressions.
- The election of the instance with the lowest id, which reads the table and keeps
  nothing, and the last steps of a process that exits.
- The timers of `libcpu`: lists that only the thread that runs the callbacks changes.
  The models use that an armed timer fires between two calls of `cpu_exec`.
- Register getters and setters of the KVM interface, non-maskable interrupts,
  interception of system calls.
- A process killed while it holds the shared lock: no code handles it.

## 7. Plan

1. Composition of `AddressSpace` with forks in the middle of
   `executeMemoryOperation`, whose handlers may write the object that was looked up.
2. The election among instances and process exit in `KvmVcpu`.
