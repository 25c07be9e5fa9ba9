----------------------------- MODULE CpuRegisters -----------------------------
(***************************************************************************)
(* Where the registers of an execution state live.                         *)
(*                                                                         *)
(* All execution states of a process run on one emulated CPU.  The general *)
(* purpose and flag registers (the "symbolic region") of a state are in    *)
(* the native CPUX86State env while the state runs concretely and in its   *)
(* klee object m_symbolicRegs otherwise; the remaining registers and the   *)
(* memory of m_saveOnContextSwitch (here the "shared" cells) are at their  *)
(* native address while the state is active and in its saved copy when it  *)
(* is not.  S2EExecutor moves the contents when it changes mode, switches  *)
(* state or forks, and caches in g_s2e_fast_concrete_invocation whether    *)
(* env can be used without looking.                                        *)
(*                                                                         *)
(* guest is a history variable: what the code running in each state has    *)
(* last put in every cell, that is, what a CPU of its own would hold.      *)
(***************************************************************************)
EXTENDS Naturals

CONSTANTS
  States,     \* execution states
  Root,       \* the initial state
  Symb,       \* registers of the symbolic region
  Flags,      \* those of them that hold the condition codes
  Shared,     \* concrete registers and save-on-context-switch memory
  Vals,       \* concrete values
  Exprs,      \* symbolic values
  Concrete    \* not an expression: the register's byte mask is concrete

ASSUME CpuAssumption ==
  /\ Root \in States
  /\ Flags \subseteq Symb
  /\ Symb \cap Shared = {}
  /\ Vals # {}
  /\ Vals \cap Exprs = {}
  /\ Concrete \notin Exprs

VARIABLES
  live,              \* states that have not been deleted
  zombie,            \* terminated states
  current,           \* g_s2e_state
  active,            \* states whose m_active is set
  runningConcrete,   \* states whose m_runningConcrete is set
  needFinalize,      \* m_needFinalizeTBExec: stopped in the middle of a TB
  startSymbexAtPC,   \* states with m_startSymbexAtPC set
  toRunSymbolically, \* states with an entry in m_toRunSymbolically
  running,           \* what the CPU loop is executing
  fast,              \* g_s2e_fast_concrete_invocation
  env,               \* symbolic region of the native CPUX86State
  native,            \* shared cells at their native address
  store,             \* concrete buffer of m_symbolicRegs
  symbolic,          \* its symbolic bytes, Concrete where the mask is set
  saved,             \* m_concreteRegs and the saved memory objects
  guest              \* history: what each state's code has in its cells

modeVars == <<live, zombie, current, active, runningConcrete, needFinalize,
              startSymbexAtPC, toRunSymbolically, running, fast>>
dataVars == <<env, native, store, symbolic, saved, guest>>
vars == <<modeVars, dataVars>>

Cells == Symb \cup Shared

-------------------------------------------------------------------------------
IsConcrete(s, r) == symbolic[s][r] = Concrete
AllConcrete(s) == \A r \in Symb : IsConcrete(s, r)
FlagsRegistersAreSymbolic(s) == \E r \in Flags : ~IsConcrete(s, r)

\* What ObjectState::read returns for a register of m_symbolicRegs.
ObjectRead(s, r) == IF IsConcrete(s, r) THEN store[s][r] ELSE symbolic[s][r]

\* readSymbolicRegion and readConcreteRegion.
ReadSymbolicRegion(s, r) ==
  IF s \in runningConcrete /\ IsConcrete(s, r) THEN env[r] ELSE ObjectRead(s, r)

ReadShared(s, c) == IF s \in active THEN native[c] ELSE saved[s][c]

View(s, c) == IF c \in Symb THEN ReadSymbolicRegion(s, c) ELSE ReadShared(s, c)

\* Mutant of FastPath: the mode of the state is not looked at.
FastPathAnyMode(s, allConcrete, oneFrame) ==
  allConcrete /\ s \notin toRunSymbolically /\ s \notin startSymbexAtPC /\ oneFrame

\* updateConcreteFastPath, for a state with the given mask and KLEE stack.
FastPath(s, allConcrete, oneFrame) ==
  /\ allConcrete
  /\ s \notin toRunSymbolically
  /\ s \notin startSymbexAtPC
  /\ oneFrame
  /\ s \in runningConcrete

OneFrame(s) == s \notin needFinalize /\ running # "klee"

\* The ObjectState of s gets value x at r; a change of its concreteness is
\* notified, and the notification recomputes the fast path.
ObjectWrite(s, r, x) ==
  /\ store' = IF x \in Vals THEN [store EXCEPT ![s][r] = x] ELSE store
  /\ symbolic' = [symbolic EXCEPT ![s][r] = IF x \in Vals THEN Concrete ELSE x]
  /\ LET all == x \in Vals /\ \A q \in Symb \ {r} : IsConcrete(s, q)
     IN fast' = IF all <=> AllConcrete(s) THEN fast ELSE FastPath(s, all, OneFrame(s))

\* The byte version of writeSymbolicRegion.
WriteSymbolicRegion(s, r, v) ==
  IF s \in runningConcrete /\ IsConcrete(s, r)
  THEN /\ env' = [env EXCEPT ![r] = v]
       /\ UNCHANGED <<store, symbolic, fast>>
  ELSE /\ ObjectWrite(s, r, v)
       /\ UNCHANGED env

GuestHas(s, c, x) == guest' = [guest EXCEPT ![s][c] = x]

\* switchToConcrete and switchToSymbolic copy the whole region; the bytes of
\* registers that are symbolic are copied too and mean nothing.
SwitchToConcrete(s) ==
  /\ env' = store[s]
  /\ runningConcrete' = runningConcrete \cup {s}
  /\ UNCHANGED store

SwitchToSymbolic(s) ==
  /\ store' = [store EXCEPT ![s] = env]
  /\ runningConcrete' = runningConcrete \ {s}
  /\ UNCHANGED env

EnsureConcrete(s) ==
  IF s \in runningConcrete THEN UNCHANGED <<env, store, runningConcrete>> ELSE SwitchToConcrete(s)

EnsureSymbolic(s) ==
  IF s \in runningConcrete THEN SwitchToSymbolic(s) ELSE UNCHANGED <<env, store, runningConcrete>>

-------------------------------------------------------------------------------
Init ==
  /\ live = {Root}
  /\ zombie = {}
  /\ current = Root
  /\ active = {Root}
  /\ runningConcrete = {Root}
  /\ needFinalize = {}
  /\ startSymbexAtPC = {}
  /\ toRunSymbolically = {}
  /\ running = "loop"
  /\ fast = FALSE
  /\ \E v \in Vals :
       /\ env = [r \in Symb |-> v]
       /\ native = [c \in Shared |-> v]
       /\ store = [s \in States |-> [r \in Symb |-> v]]
       /\ symbolic = [s \in States |-> [r \in Symb |-> Concrete]]
       /\ saved = [s \in States |-> [c \in Shared |-> v]]
       /\ guest = [s \in States |-> [c \in Cells |-> v]]

\* The CPU loop is about to do something for the current state.
InLoop ==
  /\ running = "loop"
  /\ current \notin zombie

\* fetch_and_run_tb when the fast path is on: the generated code is entered
\* without asking the executor.
RunTbFast ==
  /\ InLoop
  /\ current \notin needFinalize
  /\ fast
  /\ running' = "native"
  /\ UNCHANGED <<live, zombie, current, active, runningConcrete, needFinalize,
                 startSymbexAtPC, toRunSymbolically, fast, dataVars>>

\* executeTranslationBlock: recomputes the fast path in the mode it was called
\* in, decides between KLEE and native execution, and changes mode if needed.
\* atPc: the block starts where symbolic execution was requested.
\* translated: the block already has an LLVM function.
ExecuteTranslationBlock(atPc, translated) ==
  LET s == current
      start == s \in startSymbexAtPC /\ atPc
      executeKlee == start \/ ~AllConcrete(s)
      retranslate == ~translated /\ (executeKlee \/ (s \in toRunSymbolically /\ atPc))
  IN
  /\ InLoop
  /\ s \notin needFinalize
  /\ ~fast
  /\ fast' = FastPath(s, AllConcrete(s), OneFrame(s))
  /\ startSymbexAtPC' = IF start /\ ~translated THEN startSymbexAtPC ELSE startSymbexAtPC \ {s}
  /\ toRunSymbolically' = IF atPc /\ translated THEN toRunSymbolically \ {s} ELSE toRunSymbolically
  /\ IF retranslate
     THEN UNCHANGED <<env, store, runningConcrete, running>>
     ELSE IF executeKlee
     THEN running' = "klee" /\ EnsureSymbolic(s)
     ELSE running' = "native" /\ EnsureConcrete(s)
  /\ UNCHANGED <<live, zombie, current, active, needFinalize, native, symbolic, saved, guest>>

\* Mutant of DoInterruptAll: the mode is not changed before native delivery.
DoInterruptInAnyMode ==
  /\ InLoop
  /\ current \notin needFinalize
  /\ running' = IF fast \/ AllConcrete(current) THEN "native" ELSE "klee"
  /\ UNCHANGED <<live, zombie, current, active, runningConcrete, needFinalize, startSymbexAtPC,
                 toRunSymbolically, fast, dataVars>>

\* doInterruptAll: the interrupt is delivered natively if nothing is symbolic.
DoInterruptAll ==
  LET s == current IN
  /\ InLoop
  /\ s \notin needFinalize
  /\ IF fast \/ AllConcrete(s)
     THEN running' = "native" /\ EnsureConcrete(s)
     ELSE running' = "klee" /\ EnsureSymbolic(s)
  /\ UNCHANGED <<live, zombie, current, active, needFinalize, startSymbexAtPC, toRunSymbolically,
                 fast, native, symbolic, saved, guest>>

\* finalizeTranslationBlockExec: the rest of a block interrupted by a fork.
FinalizeTranslationBlockExec ==
  /\ InLoop
  /\ current \in needFinalize
  /\ needFinalize' = needFinalize \ {current}
  /\ running' = "klee"
  /\ UNCHANGED <<live, zombie, current, active, runningConcrete, startSymbexAtPC,
                 toRunSymbolically, fast, dataVars>>

\* setCCOpEflags, run when the CPU loop exits.  Only the flag registers decide
\* the mode: another register may be symbolic when the state is made concrete.
SetCCOpEflags(v) ==
  LET s == current IN
  /\ InLoop
  /\ s \notin needFinalize
  /\ IF FlagsRegistersAreSymbolic(s)
     THEN /\ running' = "klee"
          /\ EnsureSymbolic(s)
          /\ UNCHANGED guest
     ELSE /\ runningConcrete' = runningConcrete \cup {s}
          /\ LET before == IF s \in runningConcrete THEN env ELSE store[s]
             IN env' = [r \in Symb |-> IF r \in Flags THEN v ELSE before[r]]
          /\ guest' = [guest EXCEPT ![s] = [c \in Cells |-> IF c \in Flags THEN v ELSE guest[s][c]]]
          /\ UNCHANGED <<store, running>>
  /\ UNCHANGED <<live, zombie, current, active, needFinalize, startSymbexAtPC, toRunSymbolically,
                 fast, native, symbolic, saved>>

-------------------------------------------------------------------------------
\* Generated code writes a register in place.
NativeWrite(r, v) ==
  /\ running = "native"
  /\ env' = [env EXCEPT ![r] = v]
  /\ GuestHas(current, r, v)
  /\ UNCHANGED <<modeVars, native, store, symbolic, saved>>

\* A helper called by generated code: directly in env on the fast path, through
\* the wrapped access otherwise.
HelperWrite(r, v) ==
  /\ running = "native"
  /\ IF fast
     THEN env' = [env EXCEPT ![r] = v] /\ UNCHANGED <<store, symbolic, fast>>
     ELSE WriteSymbolicRegion(current, r, v)
  /\ GuestHas(current, r, v)
  /\ UNCHANGED <<live, zombie, current, active, runningConcrete, needFinalize, startSymbexAtPC,
                 toRunSymbolically, running, native, saved>>

\* se_load_eflags: a native helper loads symbolic flags with
\* writeSymbolicRegionUnsafe; the block ends there.
LoadSymbolicFlags(r, e) ==
  /\ running = "native"
  /\ ObjectWrite(current, r, e)
  /\ GuestHas(current, r, e)
  /\ running' = "loop"
  /\ UNCHANGED <<live, zombie, current, active, runningConcrete, needFinalize, startSymbexAtPC,
                 toRunSymbolically, env, native, saved>>

\* Code interpreted by KLEE writes the register's memory object.
KleeWrite(r, x) ==
  /\ running = "klee"
  /\ ObjectWrite(current, r, x)
  /\ GuestHas(current, r, x)
  /\ UNCHANGED <<live, zombie, current, active, runningConcrete, needFinalize, startSymbexAtPC,
                 toRunSymbolically, running, env, native, saved>>

\* Shared cells are accessed at their native address in both modes.
WriteShared(c, v) ==
  /\ running \in {"native", "klee"}
  /\ native' = [native EXCEPT ![c] = v]
  /\ GuestHas(current, c, v)
  /\ UNCHANGED <<modeVars, env, store, symbolic, saved>>

\* Between two blocks a client (a plugin, KVM_SET_REGS) writes a register.
ClientWrite(r, v) ==
  /\ InLoop
  /\ WriteSymbolicRegion(current, r, v)
  /\ GuestHas(current, r, v)
  /\ UNCHANGED <<live, zombie, current, active, runningConcrete, needFinalize, startSymbexAtPC,
                 toRunSymbolically, running, native, saved>>

\* It reads one (KVM_GET_REGS): a symbolic register is concretized to v, a value
\* the state's constraints allow, and the value is written back.
ClientConcretize(r, v) ==
  /\ InLoop
  /\ ~IsConcrete(current, r)
  /\ ObjectWrite(current, r, v)
  /\ GuestHas(current, r, v)
  /\ UNCHANGED <<live, zombie, current, active, runningConcrete, needFinalize, startSymbexAtPC,
                 toRunSymbolically, running, env, native, saved>>

\* A client that leaves the symbolic registers of a state in concrete mode alone.
Unmixed(r) == current \in runningConcrete => IsConcrete(current, r)

\* jumpToSymbolic: native code asks to be run again by KLEE.
JumpToSymbolic ==
  /\ running = "native"
  /\ current \in runningConcrete
  /\ toRunSymbolically' = toRunSymbolically \cup {current}
  /\ startSymbexAtPC' = startSymbexAtPC \cup {current}
  /\ fast' = FALSE
  /\ running' = "loop"
  /\ UNCHANGED <<live, zombie, current, active, runningConcrete, needFinalize, dataVars>>

\* The block ends, or is left by an exception whose handler pops the KLEE stack.
LeaveTb ==
  /\ running \in {"native", "klee"}
  /\ running' = "loop"
  /\ UNCHANGED <<live, zombie, current, active, runningConcrete, needFinalize, startSymbexAtPC,
                 toRunSymbolically, fast, dataVars>>

\* notifyFork: an onStateFork handler throws, the block stays unfinished.
ForkAborted ==
  /\ running = "klee"
  /\ needFinalize' = needFinalize \cup {current}
  /\ running' = "loop"
  /\ UNCHANGED <<live, zombie, current, active, runningConcrete, startSymbexAtPC,
                 toRunSymbolically, fast, dataVars>>

-------------------------------------------------------------------------------
\* Mutant of Fork: notifyBranch does not save the shared cells before the clone.
ForkWithoutSaving(t) ==
  LET s == current IN
  /\ running = "klee"
  /\ t \in States \ live
  /\ live' = live \cup {t}
  /\ saved' = [saved EXCEPT ![t] = saved[s]]
  /\ store' = [store EXCEPT ![t] = store[s]]
  /\ symbolic' = [symbolic EXCEPT ![t] = symbolic[s]]
  /\ needFinalize' = needFinalize \cup {t}
  /\ guest' = [guest EXCEPT ![t] = guest[s]]
  /\ UNCHANGED <<zombie, current, active, runningConcrete, startSymbexAtPC, toRunSymbolically,
                 running, fast, env, native>>

\* notifyBranch, clone and the end of doFork.  The shared cells are saved in the
\* parent first, so that the copy the child takes is up to date.
Fork(t) ==
  LET s == current IN
  /\ running = "klee"
  /\ t \in States \ live
  /\ live' = live \cup {t}
  /\ saved' = [saved EXCEPT ![s] = native, ![t] = native]
  /\ store' = [store EXCEPT ![t] = store[s]]
  /\ symbolic' = [symbolic EXCEPT ![t] = symbolic[s]]
  /\ needFinalize' = needFinalize \cup {t}
  /\ startSymbexAtPC' = IF s \in startSymbexAtPC THEN startSymbexAtPC \cup {t} ELSE startSymbexAtPC
  /\ toRunSymbolically' = IF s \in toRunSymbolically THEN toRunSymbolically \cup {t} ELSE toRunSymbolically
  /\ guest' = [guest EXCEPT ![t] = guest[s]]
  /\ UNCHANGED <<zombie, current, active, runningConcrete, running, fast, env, native>>

\* terminateState: of the current state, which leaves the block, or of another.
TerminateCurrent ==
  /\ running \in {"native", "klee"}
  /\ zombie' = zombie \cup {current}
  /\ running' = "loop"
  /\ UNCHANGED <<live, current, active, runningConcrete, needFinalize, startSymbexAtPC,
                 toRunSymbolically, fast, dataVars>>

TerminateOther(t) ==
  /\ running \in {"native", "klee"}
  /\ t \in live \ (zombie \cup {current})
  /\ zombie' = zombie \cup {t}
  /\ UNCHANGED <<live, current, active, runningConcrete, needFinalize, startSymbexAtPC,
                 toRunSymbolically, running, fast, dataVars>>

\* The half of doStateSwitch that puts the old state away.
SaveState(s) ==
  /\ store' = IF s \in runningConcrete THEN [store EXCEPT ![s] = env] ELSE store
  /\ runningConcrete' = runningConcrete \ {s}

\* selectNextState: doStateSwitch to the searcher's choice, then the terminated
\* states are freed and the fast path is recomputed for the new state.
SelectNextState(n) ==
  /\ running = "loop"
  /\ n \in live \ zombie
  /\ IF n = current
     THEN /\ fast' = FastPath(n, AllConcrete(n), OneFrame(n))
          /\ UNCHANGED <<active, runningConcrete, native, store, saved>>
     ELSE /\ SaveState(current)
          /\ saved' = [saved EXCEPT ![current] = native]
          /\ native' = saved[n]
          /\ active' = (active \ {current}) \cup {n}
          /\ fast' = FALSE
  /\ current' = n
  /\ live' = live \ zombie
  /\ zombie' = {}
  /\ needFinalize' = needFinalize \ zombie
  /\ startSymbexAtPC' = startSymbexAtPC \ zombie
  /\ toRunSymbolically' = toRunSymbolically \ zombie
  /\ UNCHANGED <<running, env, symbolic, guest>>

-------------------------------------------------------------------------------
Next ==
  \/ RunTbFast
  \/ \E atPc, translated \in BOOLEAN : ExecuteTranslationBlock(atPc, translated)
  \/ DoInterruptAll
  \/ FinalizeTranslationBlockExec
  \/ \E v \in Vals : SetCCOpEflags(v)
  \/ \E r \in Symb, v \in Vals : NativeWrite(r, v)
  \/ \E r \in Symb, v \in Vals : HelperWrite(r, v)
  \/ \E r \in Flags, e \in Exprs : LoadSymbolicFlags(r, e)
  \/ \E r \in Symb, x \in Vals \cup Exprs : KleeWrite(r, x)
  \/ \E c \in Shared, v \in Vals : WriteShared(c, v)
  \/ \E r \in Symb, v \in Vals : Unmixed(r) /\ ClientWrite(r, v)
  \/ \E r \in Symb, v \in Vals : Unmixed(r) /\ ClientConcretize(r, v)
  \/ JumpToSymbolic
  \/ LeaveTb
  \/ ForkAborted
  \/ \E t \in States : Fork(t)
  \/ TerminateCurrent
  \/ \E t \in States : TerminateOther(t)
  \/ \E n \in States : SelectNextState(n)

Spec == Init /\ [][Next]_vars

\* The same system with a client that accesses every register in every mode.
MixedNext ==
  \/ Next
  \/ \E r \in Symb, v \in Vals : ClientWrite(r, v) \/ ClientConcretize(r, v)

MixedSpec == Init /\ [][MixedNext]_vars

-------------------------------------------------------------------------------
\* The variables have the types of the code's fields; exactly one state is
\* active, and it is g_s2e_state.
TypeOK ==
  /\ live \subseteq States
  /\ zombie \subseteq live
  /\ current \in live
  /\ active = {current}
  /\ runningConcrete \subseteq {current}
  /\ needFinalize \subseteq live
  /\ startSymbexAtPC \subseteq live
  /\ toRunSymbolically \subseteq live
  /\ running \in {"loop", "native", "klee"}
  /\ fast \in BOOLEAN
  /\ env \in [Symb -> Vals]
  /\ native \in [Shared -> Vals]
  /\ store \in [States -> [Symb -> Vals]]
  /\ symbolic \in [States -> [Symb -> Exprs \cup {Concrete}]]
  /\ saved \in [States -> [Shared -> Vals]]
  /\ guest \in [States -> [Cells -> Vals \cup Exprs]]

\* Whatever has been switched, forked and copied in between, the value a state
\* would read from a register or a shared cell is the one its own code put there.
RegistersAreExact ==
  \A s \in live, c \in Cells : View(s, c) = guest[s][c]

\* g_s2e_fast_concrete_invocation is never set when env is not the home of the
\* current state's registers: executeTranslationBlockFast asserts that the state
\* runs concretely, executeInstructions that KLEE does not run on the fast path.
FastPathIsSound ==
  fast => /\ current \in runningConcrete
          /\ AllConcrete(current)
          /\ running # "klee"

\* doFork, executeFunction and finalizeTranslationBlockExec assert that KLEE only
\* interprets a state that does not run concretely, doStateSwitch that an
\* inactive state does not; native code runs only in a state that does.
ModeMatchesEngine ==
  /\ running = "klee" => current \notin runningConcrete
  /\ running = "native" => current \in runningConcrete
  /\ needFinalize \cap runningConcrete = {}

===============================================================================
