-------------------------------- MODULE TbCache --------------------------------
(***************************************************************************)
(* The cache of translation blocks of the CPU emulator (libcpu/src/        *)
(* exec-tb.c, cpu-exec.c, and the parts of exec.c, exec-tlb.c and          *)
(* exec-memdbg.c that keep the cache consistent with guest memory).        *)
(*                                                                         *)
(* A block is guest code translated to host code.  It is found by its      *)
(* virtual address in tb_jmp_cache, then by its physical address in        *)
(* tb_phys_hash; every physical page lists the blocks with bytes on it;    *)
(* and a block that was entered from an exit of another one is patched     *)
(* into that exit, so that no lookup happens the next time.                *)
(*                                                                         *)
(* Memory contents are left out.  What matters is whether the bytes of a   *)
(* block were written after it was translated, which is the history        *)
(* variable stale.  Two ways of writing memory tell the cache nothing; the *)
(* blocks that only they made stale are in unseen.  All execution states   *)
(* share one cache, and the memories of two states differ, so after a      *)
(* switch every block counts as stale.                                     *)
(*                                                                         *)
(* map, dirty, fast and jmpCache are those of the running state.  The      *)
(* order of a chain of tb_phys_hash, cs_base, the flags of a block and its *)
(* LLVM code are left out, and so are collisions in tb_jmp_cache.  Blocks  *)
(* are numbered as they are allocated and put at the head of the lists of  *)
(* their pages, so that a list is the set of its entries, newest first.    *)
(***************************************************************************)
EXTENDS Integers

CONSTANTS
  NVirt,     \* number of consecutive virtual pages
  NPhys,     \* number of consecutive pages of RAM
  NOffsets,  \* bytes in a page
  MaxTbs,    \* blocks in the code buffer; it is flushed when they are used up
  Exits,     \* the direct exits of a block, indexes of jmp_dest
  None       \* a null pointer, page_addr[1] = -1

VARIABLES
  map,          \* the guest's page tables
  dirty,        \* CODE_DIRTY_FLAG of a page of RAM: no block is on it
  fast,         \* a TLB entry that stores go through without TLB_NOTDIRTY
  jmpCache,     \* CPUState::tb_jmp_cache
  cache,        \* tb_phys_hash, the page lists and the blocks
  invalidated,  \* tb_invalidated_flag
  flushPending, \* tb_invalidate_before_fetch
  cur,          \* env->current_tb, the block that runs
  prev,         \* ltb: block and exit through which the last block was left
  stale,        \* history: valid blocks written to since their translation
  unseen        \* history: those of them that UnseenWrite alone wrote to

tbVars == <<map, dirty, fast, jmpCache, cache, invalidated,
            flushPending, cur, prev, stale, unseen>>

VirtPages == 0 .. NVirt - 1
PhysPages == 0 .. NPhys - 1
Offsets == 0 .. NOffsets - 1
Pcs == VirtPages \X Offsets
Tbs == 1 .. MaxTbs
Links == Tbs \X Exits

Block == [pc : Pcs, len : 1 .. NOffsets,
          page : PhysPages, page2 : PhysPages \cup {None}]
\* closed is the least significant bit of jmp_dest, code the native jump.
Jump == [dest : Tbs \cup {None}, closed : BOOLEAN, code : Tbs \cup {None}]
OpenJump == [dest |-> None, closed |-> FALSE, code |-> None]

Cache == [next : 1 .. MaxTbs + 1,
          valid : SUBSET Tbs,
          block : [Tbs -> Block \cup {None}],
          onPage : [PhysPages -> SUBSET (Tbs \X {0, 1})],
          bitmap : [PhysPages -> (SUBSET Offsets) \cup {None}],
          jmp : [Links -> Jump],
          jmpList : [Tbs -> SUBSET Links]]

ASSUME TbAssumption ==
  /\ NVirt \in Nat \ {0} /\ NPhys \in Nat \ {0}
  /\ NOffsets \in Nat \ {0} /\ MaxTbs \in Nat \ {0}
  /\ None \notin Nat \cup Block \cup Links
  /\ \A bits \in SUBSET Offsets : None # bits

TbTypeOK ==
  /\ map \in [VirtPages -> PhysPages]
  /\ dirty \in [PhysPages -> BOOLEAN]
  /\ fast \in [VirtPages -> BOOLEAN]
  /\ jmpCache \in [Pcs -> Tbs \cup {None}]
  /\ cache \in Cache
  /\ cache.valid \subseteq 1 .. cache.next - 1
  /\ invalidated \in BOOLEAN /\ flushPending \in BOOLEAN
  /\ cur \in Tbs \cup {None}
  /\ prev \in Links \cup {None}
  /\ stale \subseteq cache.valid
  /\ unseen \subseteq stale

--------------------------------------------------------------------------------
\* The bytes of a block.

\* The offsets that len bytes from offset o on have on the first (n = 0) and on the
\* next page (n = 1).
Span(o, len, n) == {x \in Offsets : x + n * NOffsets \in o .. o + len - 1}

\* The offsets that block b has on its first or second page.
OffsetsOn(b, n) == Span(b.pc[2], b.len, n)

PageOf(b, n) == IF n = 0 THEN b.page ELSE b.page2

\* One of the bytes of block b is y, a page of RAM and an offset on it.
HasByte(b, y) == \E n \in {0, 1} : y[1] = PageOf(b, n) /\ y[2] \in OffsetsOn(b, n)

\* The virtual pages that block b has bytes on.
VirtPagesOf(b) == {b.pc[1]} \cup (IF b.page2 = None THEN {} ELSE {b.pc[1] + 1})

\* The blocks of cache c that have one of these physical bytes.
BlocksWith(c, bytes) == {t \in c.valid : \E y \in bytes : HasByte(c.block[t], y)}

--------------------------------------------------------------------------------
\* Flushing, invalidation, linking: functions of the cache.

EmptyCache ==
  [next |-> 1,
   valid |-> {},
   block |-> [t \in Tbs |-> None],
   onPage |-> [p \in PhysPages |-> {}],
   bitmap |-> [p \in PhysPages |-> None],
   jmp |-> [l \in Links |-> OpenJump],
   jmpList |-> [t \in Tbs |-> {}]]

Bitmap(c, p) ==
  UNION {OffsetsOn(c.block[e[1]], e[2]) : e \in c.onPage[p]}

\* Mutant of Unlink: the native jumps into the blocks are not reset.
UnlinkKeepsJumps(c, tbs) ==
  LET own == {l \in Links : l[1] \in tbs}
  IN [c EXCEPT !.jmpList = [d \in Tbs |-> IF d \in tbs THEN {} ELSE @[d] \ own],
               !.jmp = [l \in Links |-> [@[l] EXCEPT !.closed = @ \/ l \in own]]]

\* tb_remove_from_jmp_list for every exit, and tb_jmp_unlink, for one block after the
\* other, newest first: an exit of an older one is still listed when its target goes.
Unlink(c, tbs) ==
  LET own == {l \in Links : l[1] \in tbs}
      reset == {l \in Links : \E t \in tbs :
                  l \in c.jmpList[t] /\ (l \in own => l[1] < t)}
  IN [c EXCEPT
        !.jmpList = [d \in Tbs |->
           IF d \in tbs THEN {}
           ELSE @[d] \ {l \in own : ~c.jmp[l].closed /\ c.jmp[l].dest = d}],
        !.jmp = [l \in Links |->
           [dest |-> IF l \in own \cup reset THEN None ELSE @[l].dest,
            closed |-> @[l].closed \/ l \in own,
            code |-> IF l \in reset THEN None ELSE @[l].code]]]

\* tb_phys_invalidate for each of these blocks; the entries of tb_jmp_cache are
\* cleared by Forgotten.  The address and size of a block are not used any more.
TbPhysInvalidate(c, tbs) ==
  LET pages == {PageOf(c.block[e[1]], e[2]) : e \in tbs \X {0, 1}}
      gone == [c EXCEPT
        !.valid = @ \ tbs,
        !.block = [t \in Tbs |-> IF t \in tbs THEN None ELSE @[t]],
        !.onPage = [p \in PhysPages |-> {e \in @[p] : e[1] \notin tbs}],
        !.bitmap = [p \in PhysPages |-> IF p \in pages THEN None ELSE @[p]]]
  IN Unlink(gone, tbs)

\* The blocks that tb_invalidate_phys_page_range finds.
Hits(c, p, offsets) ==
  {e[1] : e \in {e \in c.onPage[p] :
                   OffsetsOn(c.block[e[1]], e[2]) \cap offsets # {}}}

\* tb_invalidate_phys_page_range up to the unprotecting of the page.
InvalidateRange(c, p, offsets, build) ==
  LET built == IF build THEN [c EXCEPT !.bitmap[p] = Bitmap(c, p)] ELSE c
      left == TbPhysInvalidate(built, Hits(c, p, offsets))
  IN IF left.onPage[p] = {} THEN [left EXCEPT !.bitmap[p] = None] ELSE left

\* Mutant of TbAllocPage: the bitmap is kept.
TbAllocPageKeepsBitmap(c, t, n) ==
  LET p == PageOf(c.block[t], n)
  IN IF p = None THEN c ELSE [c EXCEPT !.onPage[p] = @ \cup {<<t, n>>}]

\* tb_alloc_page for the page n of block t.
TbAllocPage(c, t, n) ==
  LET p == PageOf(c.block[t], n)
  IN IF p = None THEN c
     ELSE [c EXCEPT !.onPage[p] = @ \cup {<<t, n>>}, !.bitmap[p] = None]

\* tb_alloc, the end of cpu_gen_code, and tb_link_page.
TbLinkPage(c, b) ==
  LET t == c.next
      new == [c EXCEPT
        !.next = t + 1,
        !.valid = @ \cup {t},
        !.block[t] = b,
        !.jmp = [l \in Links |-> IF l[1] = t THEN OpenJump ELSE @[l]],
        !.jmpList[t] = {}]
  IN TbAllocPage(TbAllocPage(new, t, 0), t, 1)

\* tb_add_jump: the exchange fails if the exit is taken or closed.
TbAddJump(c, l, t) ==
  IF c.jmp[l].dest # None \/ c.jmp[l].closed THEN c
  ELSE [c EXCEPT !.jmp[l] = [dest |-> t, closed |-> FALSE, code |-> t],
                 !.jmpList[t] = @ \cup {l}]

NoJmpCache == [pc \in Pcs |-> None]

\* The entries of the running state that point to these blocks are cleared.
Forgotten(tbs) ==
  [pc \in Pcs |-> IF jmpCache[pc] \in tbs THEN None ELSE jmpCache[pc]]

--------------------------------------------------------------------------------
TbInit ==
  /\ map = [v \in VirtPages |-> v % NPhys]
  /\ dirty = [p \in PhysPages |-> TRUE]
  /\ fast = [v \in VirtPages |-> FALSE]
  /\ jmpCache = NoJmpCache
  /\ cache = EmptyCache
  /\ invalidated = FALSE
  /\ flushPending = FALSE
  /\ cur = None
  /\ prev = None
  /\ stale = {}
  /\ unseen = {}

\* The end of fetch_and_run_tb: block t is linked to the exit that led to it
\* and runs.  An exit leads to a page that the block with that exit is on.
Enter(t, c, inv) ==
  LET link == prev # None /\ ~inv /\ c.block[t].page2 = None
  IN /\ cache' = IF link THEN TbAddJump(c, prev, t) ELSE c
     /\ cur' = t
     /\ prev' = None
     /\ invalidated' = FALSE

MayFollow(pc) ==
  /\ cur = None
  /\ (prev # None /\ prev[1] \in cache.valid)
       => pc[1] \in VirtPagesOf(cache.block[prev[1]])

\* The block that tb_find_fast accepts from tb_jmp_cache.
Cached(pc) ==
  LET t == jmpCache[pc]
  IN IF t # None /\ cache.block[t] # None /\ cache.block[t].pc = pc
     THEN t ELSE None

\* Mutant of FetchCached: the requested flush waits for tb_find_slow.
FetchCachedUnflushed(pc) ==
  /\ MayFollow(pc)
  /\ Cached(pc) # None
  /\ Enter(Cached(pc), cache, invalidated)
  /\ UNCHANGED <<map, dirty, fast, jmpCache, flushPending, stale, unseen>>

\* tb_find_fast finds the block in tb_jmp_cache.
FetchCached(pc) ==
  /\ MayFollow(pc)
  /\ ~flushPending
  /\ Cached(pc) # None
  /\ Enter(Cached(pc), cache, invalidated)
  /\ UNCHANGED <<map, dirty, fast, jmpCache, flushPending, stale, unseen>>

\* What tb_find_slow accepts.  The physical page of the second part of the
\* block is looked up, but it makes no difference.
Matches(c, pc) ==
  {t \in c.valid : c.block[t].pc = pc /\ c.block[t].page = map[pc[1]]}

\* tb_find_slow finds the block in tb_phys_hash.
FetchHashed(pc) ==
  /\ MayFollow(pc)
  /\ ~flushPending
  /\ Cached(pc) = None
  /\ \E t \in Matches(cache, pc) :
       /\ jmpCache' = [jmpCache EXCEPT ![pc] = t]
       /\ Enter(t, cache, FALSE)
  /\ UNCHANGED <<map, dirty, fast, flushPending, stale, unseen>>

NewBlock(pc, len) ==
  [pc |-> pc, len |-> len, page |-> map[pc[1]],
   page2 |-> IF pc[2] + len > NOffsets THEN map[pc[1] + 1] ELSE None]

\* tb_find_fast and tb_find_slow translate the code at pc: tb_gen_code.
\* tlb_protect_code is called for a page that had no block.
FetchTranslated(pc, len) ==
  LET found == IF flushPending THEN EmptyCache ELSE cache
      full == found.next > MaxTbs
      flushed == flushPending \/ full
      new == TbLinkPage(IF full THEN EmptyCache ELSE found, NewBlock(pc, len))
      t == new.next - 1
      protect == {p \in PhysPages : cache'.onPage[p] # {}
                                    /\ (flushed \/ cache.onPage[p] = {})}
      kept == IF flushed THEN NoJmpCache ELSE jmpCache
  IN /\ MayFollow(pc)
     /\ pc[2] + len > NOffsets => pc[1] + 1 \in VirtPages
     /\ ~flushPending => Cached(pc) = None
     /\ Matches(found, pc) = {}
     /\ Enter(t, new, full)
     /\ jmpCache' = [kept EXCEPT ![pc] = cur']
     /\ dirty' = [p \in PhysPages |-> dirty[p] /\ p \notin protect]
     /\ fast' = [v \in VirtPages |-> fast[v] /\ map[v] \notin protect]
     /\ flushPending' = FALSE
     /\ stale' = IF flushed THEN {} ELSE stale
     /\ unseen' = IF flushed THEN {} ELSE unseen
     /\ UNCHANGED <<map>>

\* The block ends in a direct jump: through the native jump if it was patched.
Exit(n) ==
  /\ cur # None
  /\ cur' = cache.jmp[cur, n].code
  /\ prev' = IF cur' = None THEN <<cur, n>> ELSE None
  /\ UNCHANGED <<map, dirty, fast, jmpCache, cache, invalidated,
                 flushPending, stale, unseen>>

\* The block ends in another way (an indirect jump, an exception, a request to
\* exit), or an interrupt comes between two blocks: execution_loop forgets ltb.
ExitLoop ==
  /\ cur # None \/ prev # None
  /\ cur' = None
  /\ prev' = None
  /\ UNCHANGED <<map, dirty, fast, jmpCache, cache, invalidated,
                 flushPending, stale, unseen>>

--------------------------------------------------------------------------------
\* Writes to memory.

\* A store of the running block through the TLB entry of v that has no
\* TLB_NOTDIRTY.
WriteFast(v, o) ==
  LET missed == BlocksWith(cache, {<<map[v], o>>})
  IN /\ cur # None
     /\ fast[v]
     /\ stale' = stale \cup missed
     /\ unseen' = unseen \ missed
     /\ UNCHANGED <<map, dirty, fast, jmpCache, cache, invalidated,
                    flushPending, cur, prev>>

\* Mutant of WriteNotDirty: the page is unprotected although blocks are left.
WriteNotDirtyUnprotects(v, o, build, leave) ==
  LET p == map[v]
      hits == Hits(cache, p, {o})
  IN /\ cur # None
     /\ ~fast[v] /\ ~build
     /\ leave => cur \in hits
     /\ cache' = InvalidateRange(cache, p, {o}, FALSE)
     /\ jmpCache' = Forgotten(hits)
     /\ invalidated' = (invalidated \/ hits # {})
     /\ dirty' = [dirty EXCEPT ![p] = TRUE]
     /\ fast' = [fast EXCEPT ![v] = TRUE]
     /\ stale' = stale \cap cache'.valid
     /\ unseen' = unseen \cap cache'.valid
     /\ cur' = IF leave THEN None ELSE cur
     /\ prev' = IF leave THEN None ELSE prev
     /\ UNCHANGED <<map, flushPending>>

\* notdirty_mem_write.  The bitmap of the page decides whether its blocks are
\* looked at, and is built after several writes.  A block that overwrites
\* itself is left, unless its last instruction does it or the address of the
\* instruction is unknown.
WriteNotDirty(v, o, build, leave) ==
  LET p == map[v]
      code == IF cache.bitmap[p] = None THEN Offsets ELSE cache.bitmap[p]
      look == ~dirty[p] /\ o \in code
      hits == IF look THEN Hits(cache, p, {o}) ELSE {}
      new == IF look THEN InvalidateRange(cache, p, {o}, build) ELSE cache
      clean == dirty[p] \/ (look /\ cache'.onPage[p] = {})
      missed == BlocksWith(cache', {<<p, o>>})
  IN /\ cur # None
     /\ ~fast[v]
     /\ build => look /\ cache.bitmap[p] = None
     /\ leave => cur \in hits
     /\ cache' = new
     /\ jmpCache' = Forgotten(hits)
     /\ invalidated' = (invalidated \/ hits # {})
     /\ dirty' = [dirty EXCEPT ![p] = clean]
     /\ fast' = [fast EXCEPT ![v] = clean]
     /\ stale' = (stale \cap cache'.valid) \cup missed
     /\ unseen' = (unseen \cap cache'.valid) \ missed
     /\ cur' = IF leave THEN None ELSE cur
     /\ prev' = IF leave THEN None ELSE prev
     /\ UNCHANGED <<map, flushPending>>

\* The bytes of RAM from offset o of page p on.
HostBytes(p, o, len) == UNION {{p + n} \X Span(o, len, n) : n \in {0, 1}}

\* cpu_host_memory_rw: a device writes len bytes, at most a page.  Only the
\* page of the first byte is looked at.
HostWrite(p, o, len) ==
  LET offsets == o .. o + len - 1
      look == ~dirty[p]
      hits == IF look THEN Hits(cache, p, offsets) ELSE {}
      missed == BlocksWith(cache', HostBytes(p, o, len))
  IN /\ HostBytes(p, o, len) \subseteq PhysPages \X Offsets
     /\ cache' = IF look THEN InvalidateRange(cache, p, offsets, FALSE) ELSE cache
     /\ jmpCache' = Forgotten(hits)
     /\ invalidated' = (invalidated \/ hits # {})
     /\ stale' = (stale \cap cache'.valid) \cup missed
     /\ unseen' = (unseen \cap cache'.valid) \ missed
     /\ UNCHANGED <<map, dirty, fast, flushPending, cur, prev>>

\* stl_phys_notdirty, with which the MMU sets the accessed and dirty bits of page
\* tables, and S2EExecutionStateMemory::write, with which plugins write: neither
\* looks at the dirty flags, and no block is invalidated.  A write that changes the
\* standing of no block is left out.
UnseenWrite(p, o) ==
  LET hits == BlocksWith(cache, {<<p, o>>}) \ stale
  IN /\ hits # {}
     /\ stale' = stale \cup hits
     /\ unseen' = unseen \cup hits
     /\ UNCHANGED <<map, dirty, fast, jmpCache, cache, invalidated,
                    flushPending, cur, prev>>

--------------------------------------------------------------------------------
\* The TLB and the states.

\* tlb_set_page: the entry lets stores through if no block is on the page.
TlbFill(v) ==
  /\ fast' = [fast EXCEPT ![v] = dirty[map[v]]]
  /\ UNCHANGED <<map, dirty, jmpCache, cache, invalidated,
                 flushPending, cur, prev, stale, unseen>>

\* The guest maps another page and tlb_flush_page runs; instructions that do
\* this end a block.  tlb_flush_jmp_cache also clears the blocks of the page
\* before, which may end on this one.
Remap(v, p) ==
  /\ cur = None /\ prev = None
  /\ map[v] # p
  /\ map' = [map EXCEPT ![v] = p]
  /\ fast' = [fast EXCEPT ![v] = FALSE]
  /\ jmpCache' = [pc \in Pcs |->
                    IF pc[1] \in {v - 1, v} THEN None ELSE jmpCache[pc]]
  /\ UNCHANGED <<dirty, cache, invalidated, flushPending, cur,
                 prev, stale, unseen>>

\* tb_flush by a plugin or the debugger, which then leaves the block.
TbFlush ==
  /\ cache' = EmptyCache
  /\ jmpCache' = NoJmpCache
  /\ cur' = None
  /\ prev' = None
  /\ stale' = {}
  /\ unseen' = {}
  /\ UNCHANGED <<map, dirty, fast, invalidated, flushPending>>

\* Mutant of SwitchState: the blocks of the other state stay in use.
SwitchStateKeepsTbs(d, j) ==
  /\ cur = None /\ prev = None
  /\ dirty' = d
  /\ fast' = [v \in VirtPages |-> FALSE]
  /\ jmpCache' = j
  /\ stale' = cache.valid
  /\ unseen' = {}
  /\ UNCHANGED <<map, cache, invalidated, flushPending, cur, prev>>

\* S2EExecutor::doStateSwitch, with se_tb_safe_flush at its end.  The other
\* state brings its dirty flags and its CPUState as they were left:
\* tb_jmp_cache may still have a pointer to a block.
SwitchState(d, j) ==
  /\ cur = None /\ prev = None
  /\ dirty' = d
  /\ fast' = [v \in VirtPages |-> FALSE]
  /\ jmpCache' = j
  /\ flushPending' = TRUE
  /\ stale' = cache.valid
  /\ unseen' = {}
  /\ UNCHANGED <<map, cache, invalidated, cur, prev>>

--------------------------------------------------------------------------------
\* The two parts of a block are on different pages of RAM: on one page, the block is
\* listed twice and may be invalidated twice, which TbPhysInvalidate does not model.
FetchTranslatedApart(pc, len) ==
  /\ pc[2] + len > NOffsets => /\ pc[1] + 1 \in VirtPages
                               /\ map[pc[1]] # map[pc[1] + 1]
  /\ FetchTranslated(pc, len)

\* The page is not the second one of a block that can be found.
RemapFirst(v, p) ==
  /\ ~flushPending => \A t \in cache.valid :
       cache.block[t].page2 # None => cache.block[t].pc[1] + 1 # v
  /\ Remap(v, p)

\* The other state was forked from this one, or is older than every block.
DirtyLeft == {dirty, [p \in PhysPages |-> TRUE]}
JmpCachesLeft == {jmpCache, NoJmpCache}

\* The write does not leave the page.
HostWriteInPage(p, o, len) == o + len <= NOffsets /\ HostWrite(p, o, len)

TbNext ==
  \/ \E pc \in Pcs : FetchCached(pc) \/ FetchHashed(pc)
  \/ \E pc \in Pcs, len \in 1 .. NOffsets : FetchTranslatedApart(pc, len)
  \/ \E n \in Exits : Exit(n)
  \/ ExitLoop
  \/ \E v \in VirtPages, o \in Offsets : WriteFast(v, o)
  \/ \E v \in VirtPages, o \in Offsets, build, leave \in BOOLEAN :
        WriteNotDirty(v, o, build, leave)
  \/ \E p \in PhysPages, o \in Offsets, len \in 1 .. NOffsets :
        HostWriteInPage(p, o, len)
  \/ \E p \in PhysPages, o \in Offsets : UnseenWrite(p, o)
  \/ \E v \in VirtPages : TlbFill(v)
  \/ \E v \in VirtPages, p \in PhysPages : RemapFirst(v, p)
  \/ TbFlush
  \/ \E d \in DirtyLeft, j \in JmpCachesLeft : SwitchState(d, j)

TbSpec == TbInit /\ [][TbNext]_tbVars

\* The same system with devices that write across the end of a page.
HostWriteSpec ==
  /\ TbInit
  /\ [][TbNext \/ \E p \in PhysPages, o \in Offsets, len \in 1 .. NOffsets :
                  HostWrite(p, o, len)]_tbVars

--------------------------------------------------------------------------------
\* A block that can be found was translated from what memory holds now, unless a
\* write hit it that tells the cache nothing: stores of the guest, through either kind
\* of TLB entry, and writes of devices invalidate the blocks they hit, and no block
\* of another state is left.
ValidBlocksAreCurrent == ~flushPending => cache.valid \cap stale \subseteq unseen

\* Without that exception, which the code does not satisfy.
AllBlocksAreCurrent == ~flushPending => cache.valid \cap stale = {}

\* Stores to a page with blocks are seen: the page is not marked dirty, and no
\* entry of the TLB lets them through (tlb_protect_code and its counterpart
\* tlb_unprotect_code_phys).
CodePagesAreProtected ==
  ~flushPending =>
    \A p \in PhysPages : cache.onPage[p] # {} =>
      /\ ~dirty[p]
      /\ \A v \in VirtPages : map[v] = p => ~fast[v]

\* What a page knows of its blocks: a block is on the lists of its pages, once for
\* each part, exactly while it is in tb_phys_hash; the block that is allocated next is
\* on no list, so that tb_link_page adds no entry twice; and a bitmap that is used to
\* skip writes covers every block on the page.
PageDescsAreExact ==
  \A p \in PhysPages :
    /\ cache.onPage[p] = {e \in cache.valid \X {0, 1} :
                            PageOf(cache.block[e[1]], e[2]) = p}
    /\ \A e \in cache.onPage[p] : e[1] < cache.next
    /\ cache.bitmap[p] # None => Bitmap(cache, p) \subseteq cache.bitmap[p]

\* The pages of a block are the ones the guest's page tables give for it now.
MappedAsTranslated(b) ==
  /\ map[b.pc[1]] = b.page
  /\ b.page2 # None => map[b.pc[1] + 1] = b.page2

\* A patched jump of a block leads to a block that can still be found, and
\* jmp_list of the target knows it: the target can be invalidated without
\* leaving a jump into it.
JumpsAreListed ==
  /\ \A l \in Links : l[1] \in cache.valid =>
       /\ ~cache.jmp[l].closed
       /\ cache.jmp[l].code = cache.jmp[l].dest
       /\ cache.jmp[l].code \in cache.valid \cup {None}
  /\ \A t \in cache.valid :
       cache.jmpList[t] = {l \in Links : l[1] \in cache.valid
                                         /\ cache.jmp[l].dest = t}

\* tb_jmp_cache, which is not compared with physical addresses, only has
\* blocks that can be found and that are mapped where they were translated.
JumpCacheIsCurrent ==
  ~flushPending =>
    \A pc \in Pcs : LET t == jmpCache[pc] IN t # None =>
      /\ t \in cache.valid
      /\ cache.block[t].pc = pc
      /\ MappedAsTranslated(cache.block[t])

\* The two ways into a block that compare no physical address, patched jumps and
\* tb_jmp_cache, never outlive the block or its mapping.
ShortcutsAreCurrent == JumpsAreListed /\ JumpCacheIsCurrent

\* Whatever way a block is entered, by a lookup or by the native jump of a
\* block that was not invalidated while it ran, it is current (but for unseen writes)
\* and is the code that the guest has mapped at that address.
EnteredBlocksAreCurrent ==
  [][(cur' \notin {cur, None} /\ cur \in cache.valid \cup {None}) =>
       /\ cur' \in cache'.valid \ (stale' \ unseen')
       /\ MappedAsTranslated(cache'.block[cur'])]_tbVars

================================================================================
