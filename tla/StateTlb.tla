------------------------------- MODULE StateTlb -------------------------------
(***************************************************************************)
(* The software TLB of the execution states and what keeps it up to date   *)
(* (libs2ecore/src/S2EExecutionStateTlb.cpp, AddressSpaceCache.cpp, the    *)
(* notifications of klee::AddressSpace, libcpu/src/exec-tlb.c).            *)
(*                                                                         *)
(* An entry of the TLB gives generated code direct access to the buffer    *)
(* behind a page of RAM.  Two flags take that away: TLB_SYMB for a page    *)
(* with symbolic bytes, and TLB_NOT_OURS, for writes, if the page has to   *)
(* be copied first.  Which virtual page an entry maps is left out; one     *)
(* that maps device memory is not direct.  The RAM TLB does the same for   *)
(* helpers and devices that have a host address.                           *)
(*                                                                         *)
(* Copies, splits, forks and changes between concrete and symbolic         *)
(* contents must all reach the entries.                                    *)
(*                                                                         *)
(* Module AddressSpace has the map, its cache and the pieces of a split    *)
(* page one by one.  Its theorems say that the cache is coherent and that  *)
(* the pieces of a page are owned and copied together, so here a page is   *)
(* one object: the object that starts at the page, with the ownership and  *)
(* the buffer that all of its pieces have.                                 *)
(*                                                                         *)
(* m_tlbMap counts its keys as references and so keeps alive what the      *)
(* entries point to.  The entries of the RAM TLB are plain pointers: a     *)
(* split of a page without entries in the TLB frees the object of its RAM  *)
(* entry and leaves the entry.  Loads and stores through it go on using    *)
(* the buffer, which the pieces of the page share.  A DMA write uses the   *)
(* object as well; one that is freed by then is undefined behaviour, and   *)
(* the step is left out (DmaWrite, RamObjectsExist).                       *)
(***************************************************************************)
EXTENDS Naturals

CONSTANTS
  States,     \* identities of the execution states; each is used once
  Root,       \* the initial state
  Pages,      \* the pages of RAM, by host address
  NPieces,    \* bytes in a page, and pieces in a split page
  Values,     \* contents of a byte
  Symbolic,   \* the content of a byte that is not concrete
  Zero,       \* the content of a fresh byte
  BufIds,     \* pool of concrete buffers (bound of the model)
  MmuModes,   \* the mmu indexes
  TlbSlots,   \* the slots of a TLB
  RamIndex,   \* the slot of a host page in the RAM TLB
  None,       \* a null pointer, an address that matches nothing
  Freed       \* marks a buffer that is not allocated

VARIABLES
  live,       \* the execution states that exist
  active,     \* g_s2e_state, whose TLB is the one in env
  cowKey,     \* AddressSpace::cowKey; 0 before the state was created
  bound,      \* the object bound at each page, in each state
  store,      \* the buffers with their concrete masks, or Freed
  tlb,        \* CPUX86State::tlb_table
  tlbMap,     \* m_tlbMap: pairs of an object and the coordinates of an entry
  memcache,   \* AddressSpaceCache::m_memcache
  ramTlb      \* CPUX86State::se_ram_tlb

vars == <<live, active, cowKey, bound, store, tlb, tlbMap, memcache, ramTlb>>

Offsets == 0 .. NPieces - 1
Coords == MmuModes \X TlbSlots
Object == [page : Pages, split : BOOLEAN, owner : Nat, buf : BufIds]
Entry == [direct : BOOLEAN, os : Object \cup {None}, buf : BufIds \cup {None},
          symb : BOOLEAN, notOurs : BOOLEAN]
RamEntry == [page : Pages \cup {None}, notOurs : BOOLEAN, os : Object \cup {None},
             buf : BufIds \cup {None}]

ASSUME TlbAssumption ==
  /\ Root \in States
  /\ NPieces \in Nat /\ NPieces > 1
  /\ Zero \in Values \ {Symbolic}
  /\ BufIds \subseteq Nat
  /\ RamIndex \in [Pages -> TlbSlots]
  /\ None \notin Object \cup Pages \cup BufIds \cup Values
  /\ Freed \notin [Offsets -> Values]

\* s_cputlb_empty_entry: every flag of it is set.
EmptyEntry == [direct |-> FALSE, os |-> None, buf |-> None, symb |-> TRUE, notOurs |-> TRUE]
NoRamEntry == [page |-> None, notOurs |-> FALSE, os |-> None, buf |-> None]

EmptyTlb == [c \in Coords |-> EmptyEntry]
EmptyRamTlb == [r \in TlbSlots |-> NoRamEntry]
NoPages == [p \in Pages |-> None]

IsOwnedByUs(s, o) == o.owner = cowKey[s]

\* isAllConcrete, of the contents of a buffer.
AllConcrete(bytes) == \A i \in Offsets : bytes[i] # Symbolic

\* A store that goes around the concrete mask leaves a symbolic byte symbolic.
StoredDirectly(bytes, i, v) ==
  [bytes EXCEPT ![i] = IF bytes[i] = Symbolic THEN Symbolic ELSE v]

\* Which buffer an allocation returns does not matter: it is the first free one.
FirstFree(b) == store[b] = Freed /\ \A c \in BufIds : c < b => store[c] # Freed

\* Reference counting: a buffer lives as long as a page is bound to it.
Collect(st) ==
  store' = [b \in BufIds |->
              IF \E s \in States, p \in Pages : bound'[s][p] # None /\ bound'[s][p].buf = b
              THEN st[b] ELSE Freed]

-------------------------------------------------------------------------------
\* The coordinates of the entries that m_tlbMap has for object o.
Refs(s, o) == {c \in Coords : <<o, c>> \in tlbMap[s]}

\* Mutant of EntriesUpdated: the entries go on using the old buffer.
EntriesKeepBuffer(s, o, n, bytes, owned) ==
  [c \in Coords |->
     IF c \notin Refs(s, o) THEN tlb[s][c]
     ELSE [tlb[s][c] EXCEPT !.os = n, !.symb = ~AllConcrete(bytes),
                            !.notOurs = @ /\ ~owned]]

\* updateTlb: the entries of o once it is replaced by n, with the contents bytes.
EntriesUpdated(s, o, n, bytes, owned) ==
  [c \in Coords |->
     IF c \notin Refs(s, o) THEN tlb[s][c]
     ELSE [tlb[s][c] EXCEPT !.os = n, !.buf = n.buf, !.symb = ~AllConcrete(bytes),
                            !.notOurs = @ /\ ~owned]]

\* Mutant of RefsMoved: the references stay with the old object.
RefsStay(s, o, n) == tlbMap[s]

\* updateTlb: the references of o become those of n.
RefsMoved(s, o, n) ==
  IF Refs(s, o) = {} THEN tlbMap[s]
  ELSE {r \in tlbMap[s] : r[1] \notin {o, n}} \cup ({n} \X Refs(s, o))

\* updateTlbEntryConcreteStatus, which runs once per entry of o, drops the RAM
\* entry in the slot of the page.
RamDropped(s, o, ram) ==
  IF Refs(s, o) = {} THEN ram ELSE [ram EXCEPT ![RamIndex[o.page]] = NoRamEntry]

\* updateRamTlb, called with a copy n that the state owns.
RamUpdated(o, n, bytes, ram) ==
  LET r == RamIndex[o.page]
  IN  IF ram[r].os # o THEN ram
      ELSE [ram EXCEPT ![r] =
              IF AllConcrete(bytes)
              THEN [page |-> o.page, notOurs |-> FALSE, os |-> n, buf |-> n.buf]
              ELSE [@ EXCEPT !.notOurs = FALSE]]

\* What transferRam puts into the slot before it accesses byte i of page p: an
\* address inside the page, from a piece other than the first, matches nothing.
RamFilled(s, p, i, ram) ==
  LET o == bound[s][p]
  IN  IF ~AllConcrete(store[o.buf]) THEN ram
      ELSE [ram EXCEPT ![RamIndex[p]] =
              IF o.split /\ i # 0 THEN NoRamEntry
              ELSE [page |-> p, notOurs |-> ~IsOwnedByUs(s, o), os |-> o, buf |-> o.buf]]

-------------------------------------------------------------------------------
Init ==
  /\ live = {Root}
  /\ active = Root
  /\ cowKey = [s \in States |-> IF s = Root THEN 1 ELSE 0]
  /\ bound = [s \in States |-> NoPages]
  /\ store = [b \in BufIds |-> Freed]
  /\ tlb = [s \in States |-> EmptyTlb]
  /\ tlbMap = [s \in States |-> {}]
  /\ memcache = [s \in States |-> NoPages]
  /\ ramTlb = [s \in States |-> EmptyRamTlb]

\* registerRam of a page, in the initial state and before it forks.
RegisterRam(p, b) ==
  /\ cowKey[Root] = 1
  /\ bound[Root][p] = None
  /\ FirstFree(b)
  /\ bound' = [bound EXCEPT ![Root] =
                 [@ EXCEPT ![p] = [page |-> p, split |-> FALSE, owner |-> 1, buf |-> b]]]
  /\ store' = [store EXCEPT ![b] = [i \in Offsets |-> Zero]]
  /\ UNCHANGED <<live, active, cowKey, tlb, tlbMap, memcache, ramTlb>>

\* tlb_set_page of a page of RAM over entry c, with updateTlbEntry.
TlbFill(c, p) ==
  LET old == tlb[active][c].os
      new == IF memcache[active][p] # None THEN memcache[active][p] ELSE bound[active][p]
  IN  /\ new # None
      /\ memcache' = [memcache EXCEPT ![active] = [@ EXCEPT ![p] = new]]
      /\ tlb' = [tlb EXCEPT ![active] = [@ EXCEPT ![c] =
                   [direct |-> TRUE, os |-> new, buf |-> new.buf,
                    symb |-> ~AllConcrete(store[new.buf]),
                    notOurs |-> ~IsOwnedByUs(active, new)]]]
      /\ tlbMap' = [tlbMap EXCEPT ![active] = (@ \ {<<old, c>>}) \cup {<<new, c>>}]
      /\ ramTlb' = [ramTlb EXCEPT ![active] = [@ EXCEPT ![RamIndex[p]] = NoRamEntry]]
      /\ UNCHANGED <<live, active, cowKey, bound, store>>

\* tlb_set_page of a page of device memory over entry c: it has no host address, and
\* the entry keeps the object and the buffer of the page of RAM it mapped before.
TlbFillMmio(c) ==
  /\ tlb' = [tlb EXCEPT ![active][c].direct = FALSE]
  /\ UNCHANGED <<live, active, cowKey, bound, store, tlbMap, memcache, ramTlb>>

\* tlb_flush
TlbFlush ==
  /\ tlb' = [tlb EXCEPT ![active] = EmptyTlb]
  /\ tlbMap' = [tlbMap EXCEPT ![active] = {}]
  /\ UNCHANGED <<live, active, cowKey, bound, store, memcache, ramTlb>>

\* tlb_flush_page, with flushTlbCachePage for hit, the entries in the slot of the
\* virtual page that map it.
TlbFlushPage(hit) ==
  LET flushed == [c \in Coords |-> IF c \in hit THEN EmptyEntry ELSE tlb[active][c]]
  IN  /\ tlb' = [tlb EXCEPT ![active] = flushed]
      /\ tlbMap' = [tlbMap EXCEPT ![active] =
                      @ \ {<<tlb[active][c].os, c>> : c \in hit}]
      /\ UNCHANGED <<live, active, cowKey, bound, store, memcache, ramTlb>>

\* Generated code stores a concrete byte through an entry of the TLB.  With TLB_SYMB
\* set, io_write first checks that the byte is concrete.
FastWrite(c, i, v) ==
  LET e == tlb[active][c]
  IN  /\ e.direct /\ ~e.notOurs
      /\ e.symb => store[e.buf][i] # Symbolic
      /\ store' = [store EXCEPT ![e.buf] = StoredDirectly(@, i, v)]
      /\ UNCHANGED <<live, active, cowKey, bound, tlb, tlbMap, memcache, ramTlb>>

\* st_raw through an entry of the RAM TLB, of which it uses the address only.
RamWrite(p, i, v) ==
  LET e == ramTlb[active][RamIndex[p]]
  IN  /\ e.page = p /\ ~e.notOurs
      /\ store' = [store EXCEPT ![e.buf] = StoredDirectly(@, i, v)]
      /\ UNCHANGED <<live, active, cowKey, bound, tlb, tlbMap, memcache, ramTlb>>

\* s2e_dma_rw, for a write that hits: the entry's object, which is still the one of the
\* page, is passed to getWriteable.  The state owns it, so this changes nothing, and
\* the bytes are copied to the address in the entry.
DmaWrite(p, i, v) ==
  /\ ramTlb[active][RamIndex[p]].os = bound[active][p]
  /\ RamWrite(p, i, v)

\* transferRam for a read; the read itself changes nothing here.
TransferRamRead(p, i) ==
  /\ bound[active][p] # None
  /\ ramTlb' = [ramTlb EXCEPT ![active] = RamFilled(active, p, i, @)]
  /\ UNCHANGED <<live, active, cowKey, bound, store, tlb, tlbMap, memcache>>

\* A write of byte i of page p, which the state owns, changes it in place.  notifies:
\* the caller compares isAllConcrete before and after the write and reports a change
\* (addressSpaceSymbolicStatusChange).  A report for a piece other than the first looks
\* up the page, which fills the memory cache.
WriteInPlace(s, p, i, v, ram, notifies) ==
  LET o == bound[s][p]
      after == [store[o.buf] EXCEPT ![i] = v]
      base == IF o.split /\ i # 0 /\ memcache[s][p] = None THEN o ELSE memcache[s][p]
  IN  /\ store' = [store EXCEPT ![o.buf] = after]
      /\ IF notifies /\ AllConcrete(store[o.buf]) # AllConcrete(after)
         THEN /\ tlb' = [tlb EXCEPT ![s] = EntriesUpdated(s, o, o, after, TRUE)]
              /\ memcache' = [memcache EXCEPT ![s] = [@ EXCEPT ![p] = base]]
              /\ ramTlb' = [ramTlb EXCEPT ![s] = RamDropped(s, o, ram)]
         ELSE /\ ramTlb' = [ramTlb EXCEPT ![s] = ram]
              /\ UNCHANGED <<tlb, memcache>>
      /\ UNCHANGED <<live, active, cowKey, bound, tlbMap>>

\* A write of a page that the state does not own: getWriteable replaces the object by a
\* copy in buffer b, which addressSpaceChange reports, and the copy is written.
WriteCopied(s, p, i, v, b, ram, notifies) ==
  LET o == bound[s][p]
      n == [o EXCEPT !.owner = cowKey[s], !.buf = b]
      before == store[o.buf]
      after == [before EXCEPT ![i] = v]
      reported == notifies /\ AllConcrete(before) # AllConcrete(after)
      ramCopied == RamUpdated(o, n, before, RamDropped(s, o, ram))
  IN  /\ FirstFree(b)
      /\ bound' = [bound EXCEPT ![s] = [@ EXCEPT ![p] = n]]
      /\ Collect([store EXCEPT ![b] = after])
      /\ tlb' = [tlb EXCEPT ![s] =
                   EntriesUpdated(s, o, n, IF reported THEN after ELSE before, TRUE)]
      /\ tlbMap' = [tlbMap EXCEPT ![s] = RefsMoved(s, o, n)]
      /\ memcache' = [memcache EXCEPT ![s] =
                        [@ EXCEPT ![p] = IF reported /\ o.split /\ i # 0 THEN n ELSE None]]
      /\ ramTlb' = [ramTlb EXCEPT ![s] =
                      IF reported THEN RamDropped(s, o, ramCopied) ELSE ramCopied]
      /\ UNCHANGED <<live, active, cowKey>>

\* One byte of page p is written through the object that getWriteable returns.
WriteObject(s, p, i, v, b, ram, notifies) ==
  /\ bound[s][p] # None
  /\ IF IsOwnedByUs(s, bound[s][p])
     THEN b = bound[s][p].buf /\ WriteInPlace(s, p, i, v, ram, notifies)
     ELSE WriteCopied(s, p, i, v, b, ram, notifies)

\* Mutants of SlowWrite: a shared object is written in place; a change of the concrete
\* status is not reported.
SlowWriteInPlace(s, p, i, v, b) ==
  /\ bound[s][p] # None
  /\ IF IsOwnedByUs(s, bound[s][p])
     THEN WriteObject(s, p, i, v, b, ramTlb[s], TRUE)
     ELSE /\ store' = [store EXCEPT ![bound[s][p].buf] = [@ EXCEPT ![i] = v]]
          /\ UNCHANGED <<live, active, cowKey, bound, tlb, tlbMap, memcache, ramTlb>>

SlowWriteUnreported(s, p, i, v, b) ==
  WriteObject(s, p, i, v, b, ramTlb[s], FALSE)

\* iterateWrite, in any state.
SlowWrite(s, p, i, v, b) ==
  WriteObject(s, p, i, v, b, ramTlb[s], TRUE)

\* transferRam for a write: the slot is filled, then the byte written.
TransferRamWrite(p, i, v, b) ==
  /\ bound[active][p] # None
  /\ WriteObject(active, p, i, v, b, RamFilled(active, p, i, ramTlb[active]), TRUE)

\* Mutant of SplitOwned: the memory cache goes on returning the unsplit object.
SplitOwnedKeepsCached(p) ==
  LET o == bound[active][p]
      n == [o EXCEPT !.split = TRUE]
  IN  /\ o # None
      /\ ~o.split
      /\ IsOwnedByUs(active, o)
      /\ bound' = [bound EXCEPT ![active] = [@ EXCEPT ![p] = n]]
      /\ tlb' = [tlb EXCEPT ![active] =
                   EntriesUpdated(active, o, n, store[o.buf], FALSE)]
      /\ tlbMap' = [tlbMap EXCEPT ![active] = RefsMoved(active, o, n)]
      /\ ramTlb' = [ramTlb EXCEPT ![active] = RamDropped(active, o, @)]
      /\ UNCHANGED <<live, active, cowKey, store, memcache>>

\* splitMemoryObject of a page that the state owns: addressSpaceObjectSplit hands
\* the entries of the page to its first piece, which has no owner yet.
SplitOwned(p) ==
  LET o == bound[active][p]
      n == [o EXCEPT !.split = TRUE]
  IN  /\ o # None
      /\ ~o.split
      /\ IsOwnedByUs(active, o)
      /\ bound' = [bound EXCEPT ![active] = [@ EXCEPT ![p] = n]]
      /\ tlb' = [tlb EXCEPT ![active] =
                   EntriesUpdated(active, o, n, store[o.buf], FALSE)]
      /\ tlbMap' = [tlbMap EXCEPT ![active] = RefsMoved(active, o, n)]
      /\ memcache' = [memcache EXCEPT ![active] = [@ EXCEPT ![p] = None]]
      /\ ramTlb' = [ramTlb EXCEPT ![active] = RamDropped(active, o, @)]
      /\ UNCHANGED <<live, active, cowKey, store>>

\* Mutant of Fork: the entries of the RAM TLB stay.
ForkKeepsRamTlb(t) ==
  LET shared == [c \in Coords |-> [tlb[active][c] EXCEPT !.notOurs = TRUE]]
  IN  /\ cowKey[t] = 0
      /\ live' = live \cup {t}
      /\ cowKey' = [cowKey EXCEPT ![active] = @ + 1, ![t] = cowKey[active] + 1]
      /\ bound' = [bound EXCEPT ![t] = bound[active]]
      /\ tlb' = [tlb EXCEPT ![active] = shared, ![t] = shared]
      /\ tlbMap' = [tlbMap EXCEPT ![t] = tlbMap[active]]
      /\ ramTlb' = [ramTlb EXCEPT ![t] = ramTlb[active]]
      /\ UNCHANGED <<active, store, memcache>>

\* notifyBranch and clone: the active state forks t.  clearTlbOwnership and
\* clearRamTlb run before the CPU state is copied; the child starts with the
\* parent's m_tlbMap and an empty memory cache.
Fork(t) ==
  LET shared == [c \in Coords |-> [tlb[active][c] EXCEPT !.notOurs = TRUE]]
  IN  /\ cowKey[t] = 0
      /\ live' = live \cup {t}
      /\ cowKey' = [cowKey EXCEPT ![active] = @ + 1, ![t] = cowKey[active] + 1]
      /\ bound' = [bound EXCEPT ![t] = bound[active]]
      /\ tlb' = [tlb EXCEPT ![active] = shared, ![t] = shared]
      /\ tlbMap' = [tlbMap EXCEPT ![t] = tlbMap[active]]
      /\ ramTlb' = [ramTlb EXCEPT ![active] = EmptyRamTlb]
      /\ UNCHANGED <<active, store, memcache>>

\* doStateSwitch: the TLBs go with the CPU state, unflushed.
SwitchState(t) ==
  /\ t \in live \ {active}
  /\ active' = t
  /\ UNCHANGED <<live, cowKey, bound, store, tlb, tlbMap, memcache, ramTlb>>

\* The destructor of a state that is not the active one.
Delete(s) ==
  /\ s \in live \ {active}
  /\ live' = live \ {s}
  /\ bound' = [bound EXCEPT ![s] = NoPages]
  /\ tlb' = [tlb EXCEPT ![s] = EmptyTlb]
  /\ tlbMap' = [tlbMap EXCEPT ![s] = {}]
  /\ memcache' = [memcache EXCEPT ![s] = NoPages]
  /\ ramTlb' = [ramTlb EXCEPT ![s] = EmptyRamTlb]
  /\ Collect(store)
  /\ UNCHANGED <<active, cowKey>>

Next ==
  \/ \E p \in Pages, b \in BufIds : RegisterRam(p, b)
  \/ \E c \in Coords, p \in Pages : TlbFill(c, p)
  \/ \E c \in Coords : TlbFillMmio(c)
  \/ TlbFlush
  \/ \E i \in TlbSlots : \E hit \in SUBSET (MmuModes \X {i}) : TlbFlushPage(hit)
  \/ \E c \in Coords, i \in Offsets, v \in Values \ {Symbolic} : FastWrite(c, i, v)
  \/ \E p \in Pages, i \in Offsets, v \in Values \ {Symbolic} :
       RamWrite(p, i, v) \/ DmaWrite(p, i, v)
  \/ \E p \in Pages, i \in Offsets : TransferRamRead(p, i)
  \/ \E p \in Pages, i \in Offsets, v \in Values \ {Symbolic}, b \in BufIds :
       TransferRamWrite(p, i, v, b)
  \/ \E s \in live, p \in Pages, i \in Offsets, v \in Values, b \in BufIds :
       SlowWrite(s, p, i, v, b)
  \/ \E p \in Pages : SplitOwned(p)
  \/ \E t \in States \ live : Fork(t)
  \/ \E t \in States : SwitchState(t)
  \/ \E s \in States : Delete(s)

Spec == Init /\ [][Next]_vars

-------------------------------------------------------------------------------
(***************************************************************************)
(* executeMemoryOperation at a symbolic address.  It splits the page, also *)
(* one the state has to copy first, and writes at a symbolic offset        *)
(* without comparing isAllConcrete.  Neither step keeps the TLB up to      *)
(* date, so both are left out of Spec.                                     *)
(***************************************************************************)
\* splitMemoryObject of a shared page: the entries follow the page to its copy, but
\* addressSpaceObjectSplit is given the object that was copied, which has none left.
SplitShared(p, b) ==
  LET o == bound[active][p]
      w == [o EXCEPT !.owner = cowKey[active], !.buf = b]
  IN  /\ o # None
      /\ ~o.split
      /\ ~IsOwnedByUs(active, o)
      /\ FirstFree(b)
      /\ bound' = [bound EXCEPT ![active] = [@ EXCEPT ![p] = [w EXCEPT !.split = TRUE]]]
      /\ Collect([store EXCEPT ![b] = store[o.buf]])
      /\ tlb' = [tlb EXCEPT ![active] = EntriesUpdated(active, o, w, store[o.buf], TRUE)]
      /\ tlbMap' = [tlbMap EXCEPT ![active] = RefsMoved(active, o, w)]
      /\ memcache' = [memcache EXCEPT ![active] = [@ EXCEPT ![p] = None]]
      /\ ramTlb' = [ramTlb EXCEPT ![active] =
                      RamUpdated(o, w, store[o.buf], RamDropped(active, o, @))]
      /\ UNCHANGED <<live, active, cowKey>>

\* write at a symbolic offset into a piece: all of its bytes become symbolic.
WriteAtSymbolicOffset(p, i, b) ==
  /\ bound[active][p] # None
  /\ bound[active][p].split
  /\ WriteObject(active, p, i, Symbolic, b, ramTlb[active], FALSE)

SymbolicAddressNext ==
  \/ Next
  \/ \E p \in Pages, b \in BufIds : SplitShared(p, b)
  \/ \E p \in Pages, i \in Offsets, b \in BufIds : WriteAtSymbolicOffset(p, i, b)

SymbolicAddressSpec == Init /\ [][SymbolicAddressNext]_vars

-------------------------------------------------------------------------------
\* The variables have the types of the fields they model: registerRam, the copies
\* and the splits bind objects of the page they stand for, with buffers of their own.
TypeOK ==
  /\ live \subseteq States
  /\ active \in live
  /\ cowKey \in [States -> Nat]
  /\ bound \in [States -> [Pages -> Object \cup {None}]]
  /\ store \in [BufIds -> [Offsets -> Values] \cup {Freed}]
  /\ tlb \in [States -> [Coords -> Entry]]
  /\ tlbMap \in [States -> SUBSET (Object \X Coords)]
  /\ memcache \in [States -> [Pages -> Object \cup {None}]]
  /\ ramTlb \in [States -> [TlbSlots -> RamEntry]]

\* The entries through which generated code accesses RAM.
Direct(s) == {c \in Coords : tlb[s][c].direct}

\* What audit() asserts, and what updateTlb and flushTlbCachePage rely on: m_tlbMap
\* lists every entry under the object it points to, and lists nothing else.
TlbMapIsExact ==
  \A s \in live :
    tlbMap[s] = {<<tlb[s][c].os, c>> : c \in {c \in Coords : tlb[s][c].os # None}}

\* A load through the TLB sees the memory of its own state: whatever was copied or
\* split since updateTlbEntry, the entry uses the buffer the page is bound to.
DirectReadsAreCurrent ==
  \A s \in live : \A c \in Direct(s) :
    LET e == tlb[s][c]
    IN  e.os = bound[s][e.os.page] /\ e.buf = e.os.buf

\* S2EExecutionStateTlb.cpp:222: "If a page contains at least one byte of symbolic
\* data, it will go through the slow path. Otherwise, softmmu will directly access
\* the concrete array."
SymbolicPagesTakeSlowPath ==
  \A s \in live : \A c \in Direct(s) :
    tlb[s][c].symb <=> ~AllConcrete(store[tlb[s][c].buf])

\* A store through the TLB or through the RAM TLB changes no other state: the buffer
\* is that of a page the state owns, and backs no page of another state.
DirectWritesArePrivate ==
  \A s \in live :
    LET written == {<<tlb[s][c].os.page, tlb[s][c].buf>> :
                      c \in {c \in Direct(s) : ~tlb[s][c].notOurs}}
                   \cup {<<ramTlb[s][r].page, ramTlb[s][r].buf>> :
                      r \in {r \in TlbSlots :
                               ramTlb[s][r].page # None /\ ~ramTlb[s][r].notOurs}}
    IN  \A w \in written :
          /\ bound[s][w[1]].buf = w[2]
          /\ \A t \in live \ {s}, p \in Pages : bound[t][p] # None => bound[t][p].buf # w[2]

\* What a DMA write needs, and SplitOwned does not keep: the object in an entry of the
\* RAM TLB that it uses is the one that the page is bound to, and the state owns it.
RamObjectsExist ==
  \A r \in TlbSlots :
    LET e == ramTlb[active][r]
    IN  e.page # None /\ ~e.notOurs => e.os = bound[active][e.page] /\ IsOwnedByUs(active, e.os)

\* A hit in the memory cache of a state is the object its address space has:
\* addressSpaceChange and notifySplit reach the cache whenever the object changes.
MemcacheIsCoherent ==
  \A s \in live, p \in Pages : memcache[s][p] # None => memcache[s][p] = bound[s][p]

\* What state s reads in page p.
Contents(s, p) == IF bound[s][p] = None THEN None ELSE store[bound[s][p].buf]

\* Stores that go around the address space keep what it promises: a step changes the
\* memory of at most one of the states that exist before and after it, and the memory
\* of a new state is that of the state that forked it.
StepsAreIsolated ==
  [][/\ \A s, t \in live \cap live' :
          \/ s = t
          \/ \A p \in Pages : Contents(s, p)' = Contents(s, p)
          \/ \A p \in Pages : Contents(t, p)' = Contents(t, p)
     /\ \A t \in live' \ live, p \in Pages : Contents(t, p)' = Contents(active, p)]_vars

===============================================================================
