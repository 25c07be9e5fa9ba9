----------------------------- MODULE TbCacheProofs -----------------------------
(***************************************************************************)
(* Proof that the blocks that run, and those that can be found, are        *)
(* translations of what memory holds now, up to the writes that tell the   *)
(* cache nothing.                                                          *)
(*                                                                         *)
(* That a block is current is a matter of the other writes: every page     *)
(* with blocks is protected, so a write is seen, and the lists and the     *)
(* bitmap of the page have every block it can hit.  That a block is mapped *)
(* where it was translated is a matter of how it is entered.  A patched    *)
(* jump leads to a block on one page, which is a page of the block it      *)
(* leaves (Follows): while one is mapped, so is the other.  This does not  *)
(* depend on map, so remapping a page cannot disturb it.  But the running  *)
(* block may be invalidated by its own write, and its exits then lead      *)
(* where they led: the invariant speaks of a set of blocks that native     *)
(* jumps from it do not leave (ClosedUnderJumps), of which the valid ones  *)
(* are mapped.                                                             *)
(* The exits of a block that is not valid are closed (LinkOK), so that     *)
(* tb_add_jump patches none of them.  The second page of a block is        *)
(* compared by no lookup and needs a conjunct of its own.                  *)
(***************************************************************************)
EXTENDS TbCache, TLAPS

\* What holds of a cache by itself.
BlocksOK(c) ==
  \A t \in c.valid :
    /\ t < c.next /\ c.block[t] \in Block
    /\ c.block[t].page2 # None => c.block[t].pc[1] + 1 \in VirtPages

PagesOK(c) ==
  \A p \in PhysPages :
    /\ c.onPage[p] = {e \in c.valid \X {0, 1} : PageOf(c.block[e[1]], e[2]) = p}
    /\ c.bitmap[p] # None => Bitmap(c, p) \subseteq c.bitmap[p]

\* Block d is on one page, which is one of those of block b.
Follows(b, d) ==
  /\ d.page2 = None
  /\ \E n \in {0, 1} : /\ PageOf(b, n) # None
                       /\ d.pc[1] = b.pc[1] + n
                       /\ d.page = PageOf(b, n)

LinkOK(c, l) ==
  /\ l[1] \in c.valid =>
       /\ ~c.jmp[l].closed
       /\ c.jmp[l].code = c.jmp[l].dest
       /\ c.jmp[l].dest # None =>
            c.jmp[l].dest \in c.valid /\ Follows(c.block[l[1]], c.block[c.jmp[l].dest])
  /\ l[1] \notin c.valid /\ l[1] < c.next => c.jmp[l].closed

ListsOK(c) ==
  \A t \in c.valid :
    c.jmpList[t] = {l \in Links : l[1] \in c.valid /\ c.jmp[l].dest = t}

LinksOK(c) == (\A l \in Links : LinkOK(c, l)) /\ ListsOK(c)

CacheOK(c) == c \in Cache /\ BlocksOK(c) /\ PagesOK(c) /\ LinksOK(c)

\* Native jumps from these blocks lead to these blocks, and those that are valid are
\* what the guest has mapped.
ClosedUnderJumps(c, tbs) ==
  /\ \A l \in Links : l[1] \in tbs => c.jmp[l].code \in tbs \cup {None}
  /\ \A t \in tbs : t < c.next
  /\ \A t \in tbs \cap c.valid : MappedAsTranslated(c.block[t])

RunningOK == cur # None => \E tbs \in SUBSET Tbs : cur \in tbs /\ ClosedUnderJumps(cache, tbs)

PrevOK ==
  prev # None => /\ cur = None
                 /\ prev[1] < cache.next
                 /\ prev[1] \in cache.valid => MappedAsTranslated(cache.block[prev[1]])

SecondPagesAreMapped ==
  \A t \in cache.valid :
    cache.block[t].page2 # None => map[cache.block[t].pc[1] + 1] = cache.block[t].page2

TbInv ==
  /\ TbTypeOK
  /\ CacheOK(cache)
  /\ RunningOK
  /\ PrevOK
  /\ flushPending => cur = None /\ prev = None
  /\ ~flushPending => stale \subseteq unseen /\ SecondPagesAreMapped
  /\ CodePagesAreProtected
  /\ JumpCacheIsCurrent

--------------------------------------------------------------------------------
\* Cache d is what is left of cache c without some blocks.
Left(c, d, tbs) ==
  /\ d.next = c.next
  /\ d.valid = c.valid \ tbs
  /\ \A t \in d.valid : d.block[t] = c.block[t]
  /\ \A p \in PhysPages : d.onPage[p] = {e \in c.onPage[p] : e[1] \notin tbs}
  /\ \A l \in Links : d.jmp[l].code \in {c.jmp[l].code, None}

\* Exits of the blocks are closed, exits to them are reset.
Unlinked(c, d, tbs) ==
  /\ \A l \in Links : l[1] \in tbs => d.jmp[l].closed
  /\ \A l \in Links : l[1] \notin tbs =>
       d.jmp[l] = IF \E t \in tbs : l \in c.jmpList[t]
                  THEN [dest |-> None, closed |-> c.jmp[l].closed, code |-> None]
                  ELSE c.jmp[l]
  /\ \A t \in Tbs \ tbs :
       d.jmpList[t] = c.jmpList[t] \ {l \in Links : /\ l[1] \in tbs
                                                    /\ ~c.jmp[l].closed
                                                    /\ c.jmp[l].dest = t}

LEMMA UnlinkFact ==
  ASSUME NEW c \in Cache, NEW tbs \in SUBSET Tbs, NEW d, d = Unlink(c, tbs)
  PROVE  /\ d \in Cache
         /\ d.next = c.next /\ d.valid = c.valid /\ d.block = c.block
         /\ d.onPage = c.onPage /\ d.bitmap = c.bitmap
         /\ Unlinked(c, d, tbs)
         /\ \A l \in Links : d.jmp[l].code \in {c.jmp[l].code, None}
<1> DEFINE own == {l \in Links : l[1] \in tbs}
           reset == {l \in Links : \E t \in tbs :
                       l \in c.jmpList[t] /\ (l \in own => l[1] < t)}
           jmp == [l \in Links |->
                     [dest |-> IF l \in own \cup reset THEN None ELSE c.jmp[l].dest,
                      closed |-> c.jmp[l].closed \/ l \in own,
                      code |-> IF l \in reset THEN None ELSE c.jmp[l].code]]
           jmpList == [t \in Tbs |->
                         IF t \in tbs THEN {}
                         ELSE c.jmpList[t] \ {l \in own : ~c.jmp[l].closed /\ c.jmp[l].dest = t}]
<1>1. d = [c EXCEPT !.jmpList = jmpList, !.jmp = jmp]
  BY Zenon DEF Unlink, Cache
<1>2. /\ d.next = c.next /\ d.valid = c.valid /\ d.block = c.block
      /\ d.onPage = c.onPage /\ d.bitmap = c.bitmap
      /\ d.jmp = jmp /\ d.jmpList = jmpList
  BY <1>1, Zenon DEF Cache
<1>3. jmp \in [Links -> Jump]
  <2> SUFFICES ASSUME NEW l \in Links PROVE jmp[l] \in Jump
    BY Zenon DEF Links
  <2>1. c.jmp[l] \in Jump
    BY Zenon DEF Cache
  <2> QED
    BY <2>1, Zenon DEF Jump
<1>4. jmpList \in [Tbs -> SUBSET Links]
  BY Zenon DEF Cache
<1>5. d \in Cache
  BY <1>1, <1>3, <1>4, Zenon DEF Cache
<1>6. Unlinked(c, d, tbs)
  <2>1. ASSUME NEW l \in Links, l[1] \in tbs PROVE d.jmp[l].closed
    <3>1. d.jmp[l].closed = (c.jmp[l].closed \/ l \in own)
      BY <1>2
    <3>2. l \in own
      BY <2>1, Zenon
    <3> QED
      BY <3>1, <3>2, Zenon
  <2>2. ASSUME NEW l \in Links, l[1] \notin tbs
        PROVE  d.jmp[l] = IF \E t \in tbs : l \in c.jmpList[t]
                          THEN [dest |-> None, closed |-> c.jmp[l].closed, code |-> None]
                          ELSE c.jmp[l]
    <3>1. l \in reset <=> \E t \in tbs : l \in c.jmpList[t]
      BY <2>2, Zenon
    <3>2. c.jmp[l] \in Jump
      BY Zenon DEF Cache
    <3> QED
      BY <1>2, <2>2, <3>1, <3>2 DEF Jump
  <2>3. ASSUME NEW t \in Tbs \ tbs
        PROVE  d.jmpList[t] = c.jmpList[t] \ {l \in Links : /\ l[1] \in tbs
                                                            /\ ~c.jmp[l].closed
                                                            /\ c.jmp[l].dest = t}
    BY <1>2
  <2> QED
    BY <2>1, <2>2, <2>3, Zenon DEF Unlinked
<1>7. \A l \in Links : d.jmp[l].code \in {c.jmp[l].code, None}
  BY <1>2
<1> QED
  BY <1>2, <1>5, <1>6, <1>7, Zenon

LEMMA InvalidateFact ==
  ASSUME NEW c \in Cache, NEW tbs \in SUBSET Tbs, NEW d, d = TbPhysInvalidate(c, tbs)
  PROVE  /\ d \in Cache
         /\ Left(c, d, tbs)
         /\ Unlinked(c, d, tbs)
         /\ \A p \in PhysPages : d.bitmap[p] \in {c.bitmap[p], None}
<1> DEFINE pages == {PageOf(c.block[e[1]], e[2]) : e \in tbs \X {0, 1}}
           block == [t \in Tbs |-> IF t \in tbs THEN None ELSE c.block[t]]
           onPage == [p \in PhysPages |-> {e \in c.onPage[p] : e[1] \notin tbs}]
           bitmap == [p \in PhysPages |-> IF p \in pages THEN None ELSE c.bitmap[p]]
           gone == [c EXCEPT !.valid = c.valid \ tbs, !.block = block,
                             !.onPage = onPage, !.bitmap = bitmap]
<1>1. d = Unlink(gone, tbs)
  BY Zenon DEF TbPhysInvalidate, Cache
<1>2. /\ gone.next = c.next /\ gone.valid = c.valid \ tbs /\ gone.block = block
      /\ gone.onPage = onPage /\ gone.bitmap = bitmap
      /\ gone.jmp = c.jmp /\ gone.jmpList = c.jmpList
  BY Zenon DEF Cache
<1>3. gone \in Cache
  <2>1. block \in [Tbs -> Block \cup {None}]
    BY Zenon DEF Cache
  <2>2. onPage \in [PhysPages -> SUBSET (Tbs \X {0, 1})]
    BY Zenon DEF Cache
  <2>3. bitmap \in [PhysPages -> (SUBSET Offsets) \cup {None}]
    BY Zenon DEF Cache
  <2> HIDE DEF block, onPage, bitmap
  <2> QED
    BY <2>1, <2>2, <2>3, Zenon DEF Cache
<1> HIDE DEF gone
<1>4. /\ d \in Cache
      /\ d.next = gone.next /\ d.valid = gone.valid /\ d.block = gone.block
      /\ d.onPage = gone.onPage /\ d.bitmap = gone.bitmap
      /\ Unlinked(gone, d, tbs)
      /\ \A l \in Links : d.jmp[l].code \in {gone.jmp[l].code, None}
  BY <1>1, <1>3, UnlinkFact, Zenon
<1>5. Left(c, d, tbs)
  BY <1>2, <1>4 DEF Left, Cache
<1>6. Unlinked(c, d, tbs)
  BY <1>2, <1>4 DEF Unlinked
<1>7. \A p \in PhysPages : d.bitmap[p] \in {c.bitmap[p], None}
  BY <1>2, <1>4
<1> QED
  BY <1>4, <1>5, <1>6, <1>7, Zenon

--------------------------------------------------------------------------------
\* The order in which blocks are invalidated.

PagesOf(c, tbs) == {PageOf(c.block[e[1]], e[2]) : e \in tbs \X {0, 1}}

\* The exits whose native jump is reset when the blocks go, newest first.
ResetExits(c, tbs) ==
  {l \in Links : \E t \in tbs : l \in c.jmpList[t] /\ (l[1] \in tbs => l[1] < t)}

\* Cache d is cache c after TbPhysInvalidate, field by field.
Invalidated(c, d, tbs) ==
  /\ d \in Cache
  /\ d.next = c.next
  /\ d.valid = c.valid \ tbs
  /\ \A t \in Tbs : d.block[t] = IF t \in tbs THEN None ELSE c.block[t]
  /\ \A p \in PhysPages : d.onPage[p] = {e \in c.onPage[p] : e[1] \notin tbs}
  /\ \A p \in PhysPages : d.bitmap[p] = IF p \in PagesOf(c, tbs) THEN None ELSE c.bitmap[p]
  /\ \A l \in Links :
       d.jmp[l] = [dest |-> IF l[1] \in tbs \/ l \in ResetExits(c, tbs) THEN None
                            ELSE c.jmp[l].dest,
                   closed |-> c.jmp[l].closed \/ l[1] \in tbs,
                   code |-> IF l \in ResetExits(c, tbs) THEN None ELSE c.jmp[l].code]
  /\ \A t \in Tbs :
       d.jmpList[t] = IF t \in tbs THEN {}
                      ELSE c.jmpList[t] \ {l \in Links : l[1] \in tbs /\ ~c.jmp[l].closed
                                                         /\ c.jmp[l].dest = t}

LEMMA InvalidateFields ==
  ASSUME NEW c \in Cache, NEW tbs \in SUBSET Tbs
  PROVE  Invalidated(c, TbPhysInvalidate(c, tbs), tbs)
<1> DEFINE own == {l \in Links : l[1] \in tbs}
           reset == {l \in Links : \E t \in tbs :
                       l \in c.jmpList[t] /\ (l \in own => l[1] < t)}
           block == [t \in Tbs |-> IF t \in tbs THEN None ELSE c.block[t]]
           onPage == [p \in PhysPages |-> {e \in c.onPage[p] : e[1] \notin tbs}]
           bitmap == [p \in PhysPages |-> IF p \in PagesOf(c, tbs) THEN None ELSE c.bitmap[p]]
           jmp == [l \in Links |->
                     [dest |-> IF l \in own \cup reset THEN None ELSE c.jmp[l].dest,
                      closed |-> c.jmp[l].closed \/ l \in own,
                      code |-> IF l \in reset THEN None ELSE c.jmp[l].code]]
           jmpList == [t \in Tbs |->
                         IF t \in tbs THEN {}
                         ELSE c.jmpList[t] \ {l \in own : ~c.jmp[l].closed /\ c.jmp[l].dest = t}]
           gone == [c EXCEPT !.valid = c.valid \ tbs, !.block = block,
                             !.onPage = onPage, !.bitmap = bitmap]
           d == TbPhysInvalidate(c, tbs)
<1>1. d = Unlink(gone, tbs)
  BY Zenon DEF TbPhysInvalidate, Cache, PagesOf
<1>2. gone.jmp = c.jmp /\ gone.jmpList = c.jmpList
  BY Zenon DEF Cache
<1>3. Unlink(gone, tbs) = [gone EXCEPT !.jmpList = jmpList, !.jmp = jmp]
  <2>1. gone.jmp = c.jmp /\ gone.jmpList = c.jmpList
    BY <1>2, Zenon
  <2> HIDE DEF gone
  <2> QED
    BY <2>1, Zenon DEF Unlink
<1>4. /\ d.next = c.next /\ d.valid = c.valid \ tbs /\ d.block = block
      /\ d.onPage = onPage /\ d.bitmap = bitmap /\ d.jmp = jmp /\ d.jmpList = jmpList
  <2> HIDE DEF d, block, onPage, bitmap, jmp, jmpList
  <2> QED
    BY <1>1, <1>3, Zenon DEF Cache
<1>5. d \in Cache
  BY InvalidateFact, Zenon
<1>6. reset = ResetExits(c, tbs)
  BY Zenon DEF ResetExits
<1> HIDE DEF d, reset
<1>7. \A l \in Links :
        d.jmp[l] = [dest |-> IF l[1] \in tbs \/ l \in ResetExits(c, tbs) THEN None
                             ELSE c.jmp[l].dest,
                    closed |-> c.jmp[l].closed \/ l[1] \in tbs,
                    code |-> IF l \in ResetExits(c, tbs) THEN None ELSE c.jmp[l].code]
  <2> TAKE l \in Links
  <2>1. d.jmp[l] = [dest |-> IF l \in own \cup reset THEN None ELSE c.jmp[l].dest,
                    closed |-> c.jmp[l].closed \/ l \in own,
                    code |-> IF l \in reset THEN None ELSE c.jmp[l].code]
    BY <1>4, Zenon
  <2>2. (c.jmp[l].closed \/ l \in own) = (c.jmp[l].closed \/ l[1] \in tbs)
    OBVIOUS
  <2>3. (IF l \in own \cup reset THEN None ELSE c.jmp[l].dest)
          = IF l[1] \in tbs \/ l \in ResetExits(c, tbs) THEN None ELSE c.jmp[l].dest
    BY <1>6, Zenon
  <2> QED
    BY <1>6, <2>1, <2>2, <2>3, Zenon
<1>8. \A t \in Tbs :
        d.jmpList[t] = IF t \in tbs THEN {}
                       ELSE c.jmpList[t] \ {l \in Links : l[1] \in tbs /\ ~c.jmp[l].closed
                                                          /\ c.jmp[l].dest = t}
  BY <1>4, Zenon
<1>9. /\ \A t \in Tbs : d.block[t] = IF t \in tbs THEN None ELSE c.block[t]
      /\ \A p \in PhysPages : d.onPage[p] = {e \in c.onPage[p] : e[1] \notin tbs}
      /\ \A p \in PhysPages : d.bitmap[p] = IF p \in PagesOf(c, tbs) THEN None ELSE c.bitmap[p]
  <2>1. ASSUME NEW t \in Tbs PROVE d.block[t] = IF t \in tbs THEN None ELSE c.block[t]
    BY <1>4, ZenonT(30)
  <2>2. ASSUME NEW p \in PhysPages
        PROVE  /\ d.onPage[p] = {e \in c.onPage[p] : e[1] \notin tbs}
               /\ d.bitmap[p] = IF p \in PagesOf(c, tbs) THEN None ELSE c.bitmap[p]
    BY <1>4, Zenon
  <2> QED
    BY <2>1, <2>2, Zenon
<1>10. Invalidated(c, d, tbs)
  <2> HIDE DEF jmp, jmpList, block, onPage, bitmap
  <2> QED
    BY <1>4, <1>5, <1>7, <1>8, <1>9, Zenon DEF Invalidated
<1> QED
  BY <1>10, Zenon DEF d

\* TbPhysInvalidate for a set of blocks is tb_phys_invalidate for its newest block and
\* then for the others, and so, again and again, for one block after the other in the
\* order of the list of a page, as tb_invalidate_phys_page_range calls it.
THEOREM InvalidateInTurn ==
  ASSUME NEW c, CacheOK(c), NEW t \in c.valid, NEW older \in SUBSET c.valid,
         \A u \in older : u < t
  PROVE  TbPhysInvalidate(c, older \cup {t}) = TbPhysInvalidate(TbPhysInvalidate(c, {t}), older)
<1> DEFINE all == older \cup {t}
           d == TbPhysInvalidate(c, {t})
           e == TbPhysInvalidate(d, older)
           f == TbPhysInvalidate(c, all)
<1>0. /\ c \in Cache /\ t \in Tbs /\ t \in Int /\ t \notin older
      /\ {t} \in SUBSET Tbs /\ all \in SUBSET Tbs /\ older \in SUBSET Tbs
  BY DEF CacheOK, Cache, Tbs
<1>1. Invalidated(c, d, {t}) /\ Invalidated(c, f, all)
  BY <1>0, InvalidateFields, Zenon
<1>2. d \in Cache
  BY <1>1, Zenon DEF Invalidated
<1> HIDE DEF d, f
<1>3. Invalidated(d, e, older)
  BY <1>0, <1>2, InvalidateFields, Zenon
<1> HIDE DEF e
<1>4. e.next = f.next /\ e.valid = f.valid
  <2>1. /\ d.next = c.next /\ e.next = d.next /\ f.next = c.next
        /\ d.valid = c.valid \ {t} /\ e.valid = d.valid \ older /\ f.valid = c.valid \ all
    BY <1>1, <1>3, Zenon DEF Invalidated
  <2> QED
    BY <2>1
<1>5. e.block = f.block
  <2>1. \A u \in Tbs : e.block[u] = f.block[u]
    BY <1>1, <1>3 DEF Invalidated
  <2>2. e.block \in [Tbs -> Block \cup {None}] /\ f.block \in [Tbs -> Block \cup {None}]
    BY <1>1, <1>3, Zenon DEF Invalidated, Cache
  <2> QED
    BY <2>1, <2>2
<1>6. e.onPage = f.onPage
  <2>1. ASSUME NEW p \in PhysPages PROVE e.onPage[p] = f.onPage[p]
    <3>1. /\ d.onPage[p] = {x \in c.onPage[p] : x[1] \notin {t}}
          /\ e.onPage[p] = {x \in d.onPage[p] : x[1] \notin older}
          /\ f.onPage[p] = {x \in c.onPage[p] : x[1] \notin all}
      BY <1>1, <1>3, Zenon DEF Invalidated
    <3> QED
      BY <3>1, Zenon
  <2>2. /\ e.onPage \in [PhysPages -> SUBSET (Tbs \X {0, 1})]
        /\ f.onPage \in [PhysPages -> SUBSET (Tbs \X {0, 1})]
    BY <1>1, <1>3, Zenon DEF Invalidated, Cache
  <2> QED
    BY <2>1, <2>2
<1>7. e.bitmap = f.bitmap
  <2>1. \A u \in older : d.block[u] = c.block[u]
    BY <1>0, <1>1, Zenon DEF Invalidated
  <2>2. PagesOf(c, all) = PagesOf(c, {t}) \cup PagesOf(d, older)
    BY <2>1 DEF PagesOf
  <2>3. ASSUME NEW p \in PhysPages PROVE e.bitmap[p] = f.bitmap[p]
    <3>1. /\ d.bitmap[p] = IF p \in PagesOf(c, {t}) THEN None ELSE c.bitmap[p]
          /\ e.bitmap[p] = IF p \in PagesOf(d, older) THEN None ELSE d.bitmap[p]
          /\ f.bitmap[p] = IF p \in PagesOf(c, all) THEN None ELSE c.bitmap[p]
      BY <1>1, <1>3, Zenon DEF Invalidated
    <3> QED
      BY <2>2, <3>1, Zenon
  <2>4. /\ e.bitmap \in [PhysPages -> (SUBSET Offsets) \cup {None}]
        /\ f.bitmap \in [PhysPages -> (SUBSET Offsets) \cup {None}]
    BY <1>1, <1>3, Zenon DEF Invalidated, Cache
  <2> QED
    BY <2>3, <2>4
\* Of the listed exits, those of t itself are taken from the lists first.
<1>8. \A u \in c.valid : \A l \in Links : l \in c.jmpList[u] <=>
        l[1] \in c.valid /\ ~c.jmp[l].closed /\ c.jmp[l].dest = u
  BY DEF CacheOK, LinksOK, ListsOK, LinkOK
<1>9. \A u \in older : \A l \in Links : l \in d.jmpList[u] <=> l \in c.jmpList[u] /\ l[1] # t
  <2> TAKE u \in older
  <2>1. d.jmpList[u] = IF u \in {t} THEN {}
                       ELSE c.jmpList[u] \ {l \in Links : l[1] \in {t} /\ ~c.jmp[l].closed
                                                          /\ c.jmp[l].dest = u}
    <3>1. \A x \in Tbs :
            d.jmpList[x] = IF x \in {t} THEN {}
                           ELSE c.jmpList[x] \ {l \in Links : l[1] \in {t} /\ ~c.jmp[l].closed
                                                              /\ c.jmp[l].dest = x}
      BY <1>1, Zenon DEF Invalidated
    <3>2. u \in Tbs
      BY <1>0
    <3> QED
      BY <3>1, <3>2, Zenon
  <2>2. u # t /\ u \in c.valid
    BY <1>0, Zenon
  <2> QED
    BY <1>8, <2>1, <2>2
<1>10. ResetExits(c, all) = ResetExits(c, {t}) \cup ResetExits(d, older)
  <2> SUFFICES ASSUME NEW l \in Links
               PROVE  l \in ResetExits(c, all) <=>
                        l \in ResetExits(c, {t}) \/ l \in ResetExits(d, older)
    BY Zenon DEF ResetExits
  <2>1. l[1] \in Int /\ \A u \in older : u \in Int
    BY <1>0 DEF Links, Tbs
  <2>2. l \in ResetExits(c, {t}) <=> l \in c.jmpList[t] /\ l[1] # t
    BY <1>0, <2>1 DEF ResetExits
  <2>3. l \in ResetExits(d, older) <=>
          \E u \in older : l \in c.jmpList[u] /\ l[1] # t /\ (l[1] \in older => l[1] < u)
    BY <1>9, Zenon DEF ResetExits
  <2>4. l \in ResetExits(c, all) <=>
          \E u \in all : l \in c.jmpList[u] /\ (l[1] \in all => l[1] < u)
    BY Zenon DEF ResetExits
  <2>5. l[1] \in all => (l[1] < t <=> l[1] # t)
    BY <1>0, <2>1
  <2>6. \A u \in older : (l[1] \in all => l[1] < u) <=> l[1] # t /\ (l[1] \in older => l[1] < u)
    BY <1>0, <2>1
  <2> QED
    BY <2>2, <2>3, <2>4, <2>5, <2>6, Zenon
<1>11. e.jmp = f.jmp
  <2>1. ASSUME NEW l \in Links PROVE e.jmp[l] = f.jmp[l]
    <3> DEFINE dest == IF l[1] \in all \/ l \in ResetExits(c, all) THEN None ELSE c.jmp[l].dest
               closed == c.jmp[l].closed \/ l[1] \in all
               code == IF l \in ResetExits(c, all) THEN None ELSE c.jmp[l].code
    <3>1. f.jmp[l] = [dest |-> dest, closed |-> closed, code |-> code]
      BY <1>1, Zenon DEF Invalidated
    <3>2. d.jmp[l] = [dest |-> IF l[1] \in {t} \/ l \in ResetExits(c, {t}) THEN None
                               ELSE c.jmp[l].dest,
                      closed |-> c.jmp[l].closed \/ l[1] \in {t},
                      code |-> IF l \in ResetExits(c, {t}) THEN None ELSE c.jmp[l].code]
      BY <1>1, Zenon DEF Invalidated
    <3>3. /\ d.jmp[l].dest = IF l[1] = t \/ l \in ResetExits(c, {t}) THEN None ELSE c.jmp[l].dest
          /\ d.jmp[l].closed = (c.jmp[l].closed \/ l[1] = t)
          /\ d.jmp[l].code = IF l \in ResetExits(c, {t}) THEN None ELSE c.jmp[l].code
      BY <3>2
    <3>4. e.jmp[l] = [dest |-> IF l[1] \in older \/ l \in ResetExits(d, older) THEN None
                               ELSE d.jmp[l].dest,
                      closed |-> d.jmp[l].closed \/ l[1] \in older,
                      code |-> IF l \in ResetExits(d, older) THEN None ELSE d.jmp[l].code]
      BY <1>3, Zenon DEF Invalidated
    <3>5. (IF l[1] \in older \/ l \in ResetExits(d, older) THEN None ELSE d.jmp[l].dest) = dest
      BY <1>10, <3>3, Zenon
    <3>6. (d.jmp[l].closed \/ l[1] \in older) = closed
      BY <3>3, Zenon
    <3>7. (IF l \in ResetExits(d, older) THEN None ELSE d.jmp[l].code) = code
      BY <1>10, <3>3, Zenon
    <3> QED
      BY <3>1, <3>4, <3>5, <3>6, <3>7, Zenon
  <2>2. e.jmp \in [Links -> Jump] /\ f.jmp \in [Links -> Jump]
    BY <1>1, <1>3, Zenon DEF Invalidated, Cache
  <2> QED
    BY <2>1, <2>2
<1>12. e.jmpList = f.jmpList
  <2>1. ASSUME NEW u \in Tbs, u \notin all PROVE e.jmpList[u] = f.jmpList[u]
    <3> DEFINE Free(k, tbs) == {l \in Links : l[1] \in tbs /\ ~k.jmp[l].closed
                                              /\ k.jmp[l].dest = u}
    <3>1. /\ d.jmpList[u] = c.jmpList[u] \ Free(c, {t})
          /\ f.jmpList[u] = c.jmpList[u] \ Free(c, all)
      BY <1>1, <2>1, Zenon DEF Invalidated
    <3>2. e.jmpList[u] = d.jmpList[u] \ Free(d, older)
      BY <1>3, <2>1, Zenon DEF Invalidated
    <3>3. ASSUME NEW l \in Links, l[1] \in older
          PROVE  l \in Free(d, older) <=> l \in Free(c, older)
      <4>1. d.jmp[l] = [dest |-> IF l[1] \in {t} \/ l \in ResetExits(c, {t}) THEN None
                                 ELSE c.jmp[l].dest,
                        closed |-> c.jmp[l].closed \/ l[1] \in {t},
                        code |-> IF l \in ResetExits(c, {t}) THEN None ELSE c.jmp[l].code]
        BY <1>1, Zenon DEF Invalidated
      <4>2. l \in ResetExits(c, {t}) => c.jmp[l].dest = t
        BY <1>8, Zenon DEF ResetExits
      <4>3. u # t /\ u # None /\ l[1] \notin {t}
        BY <1>0, <2>1, <3>3, TbAssumption DEF Tbs
      <4>4. d.jmp[l].closed = (c.jmp[l].closed \/ l[1] \in {t})
        BY <4>1
      <4>5. d.jmp[l].closed <=> c.jmp[l].closed
        BY <4>3, <4>4, Zenon
      <4>6. d.jmp[l].dest = u <=> c.jmp[l].dest = u
        BY <4>1, <4>2, <4>3
      <4> QED
        BY <4>5, <4>6, Zenon
    <3>4. Free(c, all) = Free(c, {t}) \cup Free(c, older)
      OBVIOUS
    <3>5. Free(d, older) = Free(c, older)
      BY <3>3, Zenon
    <3> HIDE DEF Free
    <3> QED
      BY <3>1, <3>2, <3>4, <3>5, Zenon
  <2>2. ASSUME NEW u \in all PROVE e.jmpList[u] = f.jmpList[u]
    <3>1. u \in Tbs
      BY <1>0, Zenon
    <3>2. f.jmpList[u] = {}
      BY <1>1, <2>2, <3>1, Zenon DEF Invalidated
    <3>3. CASE u \in older
      BY <1>3, <3>1, <3>2, <3>3, Zenon DEF Invalidated
    <3>4. CASE u = t
      <4>1. d.jmpList[u] = {}
        BY <1>1, <3>1, <3>4, Zenon DEF Invalidated
      <4>2. e.jmpList[u] = d.jmpList[u] \ {l \in Links : l[1] \in older /\ ~d.jmp[l].closed
                                                         /\ d.jmp[l].dest = u}
        BY <1>0, <1>3, <3>1, <3>4, ZenonT(30) DEF Invalidated
      <4> QED
        BY <3>2, <4>1, <4>2, Zenon
    <3> QED
      BY <3>3, <3>4, Zenon
  <2>3. /\ e.jmpList \in [Tbs -> SUBSET Links]
        /\ f.jmpList \in [Tbs -> SUBSET Links]
    BY <1>1, <1>3, Zenon DEF Invalidated, Cache
  <2>4. \A u \in Tbs : e.jmpList[u] = f.jmpList[u]
    BY <2>1, <2>2, Zenon
  <2> QED
    BY <2>3, <2>4
<1>13. e \in Cache /\ f \in Cache
  BY <1>1, <1>3, Zenon DEF Invalidated
<1>14. e = f
  BY <1>4, <1>5, <1>6, <1>7, <1>11, <1>12, <1>13 DEF Cache
<1> QED
  BY <1>14, Zenon DEF d, e, f

--------------------------------------------------------------------------------
\* A valid block with a link is invalidated only together with its exits and the jumps
\* into it, and the pages forget it.
LEMMA InvalidateKeepsOK ==
  ASSUME NEW c, CacheOK(c), NEW tbs \in SUBSET c.valid,
         NEW d \in Cache, Left(c, d, tbs), Unlinked(c, d, tbs),
         \A p \in PhysPages : d.bitmap[p] \in {c.bitmap[p], None}
  PROVE  CacheOK(d)
<1>1. BlocksOK(d)
  BY Zenon DEF CacheOK, BlocksOK, Left
<1>2. PagesOK(d)
  <2> SUFFICES ASSUME NEW p \in PhysPages
               PROVE  /\ d.onPage[p] = {e \in d.valid \X {0, 1} :
                                          PageOf(d.block[e[1]], e[2]) = p}
                      /\ d.bitmap[p] # None => Bitmap(d, p) \subseteq d.bitmap[p]
    BY Zenon DEF PagesOK
  <2>1. c.onPage[p] = {e \in c.valid \X {0, 1} : PageOf(c.block[e[1]], e[2]) = p}
    BY Zenon DEF CacheOK, PagesOK
  <2>2. d.onPage[p] = {e \in c.onPage[p] : e[1] \notin tbs}
    BY Zenon DEF Left
  <2>3. \A e \in d.valid \X {0, 1} : d.block[e[1]] = c.block[e[1]]
    BY Zenon DEF Left
  <2>4. d.onPage[p] = {e \in d.valid \X {0, 1} : PageOf(d.block[e[1]], e[2]) = p}
    BY <2>1, <2>2, <2>3 DEF Left
  <2>5. Bitmap(d, p) \subseteq Bitmap(c, p)
    BY <2>2, <2>3, <2>4 DEF Bitmap
  <2> QED
    BY <2>4, <2>5, Zenon DEF CacheOK, PagesOK
<1>3. ASSUME NEW l \in Links PROVE LinkOK(d, l)
  <2>1. LinkOK(c, l)
    BY Zenon DEF CacheOK, LinksOK
  <2>2. CASE l[1] \in tbs
    BY <2>2, Zenon DEF Left, Unlinked, LinkOK
  <2>3. CASE l[1] \notin tbs /\ \E t \in tbs : l \in c.jmpList[t]
    <3>1. d.jmp[l] = [dest |-> None, closed |-> c.jmp[l].closed, code |-> None]
      BY <2>3, Zenon DEF Unlinked
    <3> QED
      BY <2>1, <2>3, <3>1 DEF LinkOK, Left
  <2>4. CASE l[1] \notin tbs /\ ~\E t \in tbs : l \in c.jmpList[t]
    <3>1. d.jmp[l] = c.jmp[l]
      BY <2>4, Zenon DEF Unlinked
    <3>2. ASSUME l[1] \in c.valid, c.jmp[l].dest # None PROVE c.jmp[l].dest \notin tbs
      BY <2>1, <2>4, <3>2, Zenon DEF LinkOK, CacheOK, LinksOK, ListsOK
    <3> QED
      BY <2>1, <2>4, <3>1, <3>2, Zenon DEF LinkOK, Left
  <2> QED
    BY <2>2, <2>3, <2>4, Zenon
<1>4. ListsOK(d)
  <2> SUFFICES ASSUME NEW t \in d.valid
               PROVE  d.jmpList[t] = {l \in Links : l[1] \in d.valid /\ d.jmp[l].dest = t}
    BY Zenon DEF ListsOK
  <2>1. t \in c.valid /\ t \in Tbs \ tbs /\ t # None
    BY TbAssumption DEF Left, CacheOK, Cache, Tbs
  <2>2. c.jmpList[t] = {l \in Links : l[1] \in c.valid /\ c.jmp[l].dest = t}
    BY <2>1, Zenon DEF CacheOK, LinksOK, ListsOK
  <2>3. d.jmpList[t] = c.jmpList[t] \ {l \in Links : /\ l[1] \in tbs
                                                    /\ ~c.jmp[l].closed
                                                    /\ c.jmp[l].dest = t}
    BY <2>1, Zenon DEF Unlinked
  <2>4. ASSUME NEW l \in Links, l[1] \in c.valid PROVE ~c.jmp[l].closed
    BY <2>4, Zenon DEF CacheOK, LinksOK, LinkOK
  <2>5. ASSUME NEW l \in Links, l[1] \in d.valid PROVE d.jmp[l].dest = t <=> c.jmp[l].dest = t
    <3>1. l[1] \in c.valid /\ l[1] \notin tbs
      BY <2>5, Zenon DEF Left
    <3>2. CASE \E u \in tbs : l \in c.jmpList[u]
      <4>1. d.jmp[l] = [dest |-> None, closed |-> c.jmp[l].closed, code |-> None]
        BY <3>1, <3>2, Zenon DEF Unlinked
      <4>2. PICK u \in tbs : l \in c.jmpList[u]
        BY <3>2, Zenon
      <4>3. c.jmp[l].dest = u
        BY <4>2, Zenon DEF CacheOK, LinksOK, ListsOK
      <4> QED
        BY <2>1, <4>1, <4>3
    <3>3. CASE ~\E u \in tbs : l \in c.jmpList[u]
      BY <3>1, <3>3, Zenon DEF Unlinked
    <3> QED
      BY <3>2, <3>3, Zenon
  <2> QED
    BY <2>2, <2>3, <2>4, <2>5, Zenon DEF Left
<1> QED
  BY <1>1, <1>2, <1>3, <1>4, Zenon DEF CacheOK, LinksOK

LEMMA BitmapIsSubset ==
  ASSUME NEW c, NEW p \in PhysPages
  PROVE  Bitmap(c, p) \in SUBSET Offsets
BY Zenon DEF Bitmap, OffsetsOn, Span

\* A cache that only differs in a bitmap, which may be reset or exact.
LEMMA BitmapKeepsOK ==
  ASSUME NEW c, CacheOK(c), NEW p \in PhysPages,
         NEW bits, bits \in {None, Bitmap(c, p)}, NEW d, d = [c EXCEPT !.bitmap[p] = bits]
  PROVE  /\ CacheOK(d)
         /\ d.next = c.next /\ d.valid = c.valid /\ d.block = c.block /\ d.onPage = c.onPage
         /\ d.jmp = c.jmp /\ d.jmpList = c.jmpList
<1>1. bits \in (SUBSET Offsets) \cup {None}
  BY BitmapIsSubset
<1>2. c \in Cache
  BY Zenon DEF CacheOK
<1>3. /\ d \in Cache
      /\ d.next = c.next /\ d.valid = c.valid /\ d.block = c.block /\ d.onPage = c.onPage
      /\ d.jmp = c.jmp /\ d.jmpList = c.jmpList
      /\ d.bitmap = [c.bitmap EXCEPT ![p] = bits]
  BY <1>1, <1>2, Zenon DEF Cache
<1>4. \A q \in PhysPages : Bitmap(d, q) = Bitmap(c, q)
  BY <1>3 DEF Bitmap
<1>5. PagesOK(d)
  <2>1. \A q \in PhysPages : d.bitmap[q] = IF q = p THEN bits ELSE c.bitmap[q]
    BY <1>2, <1>3, Zenon DEF Cache
  <2> QED
    BY <1>3, <1>4, <2>1 DEF CacheOK, PagesOK
<1>6. BlocksOK(d) /\ LinksOK(d)
  BY <1>3 DEF CacheOK, BlocksOK, LinksOK, LinkOK, ListsOK
<1> QED
  BY <1>3, <1>5, <1>6, Zenon DEF CacheOK

\* Cache d is what tb_invalidate_phys_page_range makes of cache c.
RangeInvalidated(c, p, offsets, d) ==
  \E build \in BOOLEAN : d = InvalidateRange(c, p, offsets, build)

\* tb_invalidate_phys_page_range leaves no block with a byte in the range.
LEMMA RangeFact ==
  ASSUME NEW c, CacheOK(c), NEW p \in PhysPages, NEW offsets, NEW d,
         RangeInvalidated(c, p, offsets, d)
  PROVE  /\ CacheOK(d)
         /\ Hits(c, p, offsets) \subseteq c.valid
         /\ Left(c, d, Hits(c, p, offsets))
         /\ BlocksWith(d, {p} \X offsets) = {}
<1> DEFINE tbs == Hits(c, p, offsets)
           full == [c EXCEPT !.bitmap[p] = Bitmap(c, p)]
<1>1. tbs \subseteq c.valid
  BY Zenon DEF Hits, CacheOK, PagesOK
<1>2. PICK built : /\ built \in {c, full}
                   /\ d = IF TbPhysInvalidate(built, tbs).onPage[p] = {}
                          THEN [TbPhysInvalidate(built, tbs) EXCEPT !.bitmap[p] = None]
                          ELSE TbPhysInvalidate(built, tbs)
  BY Zenon DEF RangeInvalidated, InvalidateRange
<1>3. /\ CacheOK(built)
      /\ built.next = c.next /\ built.valid = c.valid /\ built.block = c.block
      /\ built.onPage = c.onPage /\ built.jmp = c.jmp /\ built.jmpList = c.jmpList
  BY <1>2, BitmapKeepsOK
<1> DEFINE left == TbPhysInvalidate(built, tbs)
<1>4. CacheOK(left) /\ Left(built, left, tbs)
  <2>1. built \in Cache /\ tbs \in SUBSET Tbs
    BY <1>1, <1>3, Zenon DEF CacheOK, Cache
  <2>2. /\ left \in Cache
        /\ Left(built, left, tbs)
        /\ Unlinked(built, left, tbs)
        /\ \A q \in PhysPages : left.bitmap[q] \in {built.bitmap[q], None}
    BY <2>1, InvalidateFact, Zenon
  <2> HIDE DEF tbs
  <2> QED
    BY <1>1, <1>3, <2>2, InvalidateKeepsOK, Zenon
<1>5. d = left \/ d = [left EXCEPT !.bitmap[p] = None]
  BY <1>2, Zenon
<1> HIDE DEF left, tbs
<1>6. /\ CacheOK(d)
      /\ d.next = left.next /\ d.valid = left.valid /\ d.block = left.block
      /\ d.onPage = left.onPage /\ d.jmp = left.jmp
  BY <1>4, <1>5, BitmapKeepsOK
<1>7. Left(c, d, tbs)
  BY <1>3, <1>4, <1>6 DEF Left
<1>8. BlocksWith(d, {p} \X offsets) = {}
  <2> SUFFICES ASSUME NEW t \in d.valid, NEW o \in offsets, NEW n \in {0, 1},
                      PageOf(d.block[t], n) = p, o \in OffsetsOn(d.block[t], n)
               PROVE  FALSE
    BY DEF BlocksWith, HasByte
  <2>1. t \in c.valid /\ t \notin tbs /\ d.block[t] = c.block[t]
    BY <1>7, Zenon DEF Left
  <2>2. <<t, n>> \in c.onPage[p]
    BY <2>1, Zenon DEF CacheOK, PagesOK
  <2> QED
    BY <2>1, <2>2 DEF tbs, Hits
<1> QED
  BY <1>1, <1>6, <1>7, <1>8, Zenon DEF tbs

\* Cache d is cache c with part n of block t on the list of page q, if there is one.
Listed(c, d, t, n, q) ==
  /\ d \in Cache
  /\ d.next = c.next /\ d.valid = c.valid /\ d.block = c.block
  /\ d.jmp = c.jmp /\ d.jmpList = c.jmpList
  /\ \A p \in PhysPages :
       /\ d.onPage[p] = IF p = q THEN c.onPage[p] \cup {<<t, n>>} ELSE c.onPage[p]
       /\ d.bitmap[p] = IF p = q THEN None ELSE c.bitmap[p]

LEMMA AllocPageFact ==
  ASSUME NEW c \in Cache, NEW t \in Tbs, NEW n \in {0, 1}, c.block[t] \in Block,
         NEW d, d = TbAllocPage(c, t, n)
  PROVE  Listed(c, d, t, n, PageOf(c.block[t], n))
<1> DEFINE q == PageOf(c.block[t], n)
<1>1. q \in PhysPages \cup {None} /\ None \notin PhysPages
  BY TbAssumption DEF Block, PageOf, PhysPages
<1>2. CASE q = None
  <2>1. d = c
    BY <1>2, Zenon DEF TbAllocPage
  <2> QED
    BY <1>1, <1>2, <2>1, Zenon DEF Listed
<1>3. CASE q # None
  <2> DEFINE onPage == [c.onPage EXCEPT ![q] = @ \cup {<<t, n>>}]
             bitmap == [c.bitmap EXCEPT ![q] = None]
  <2>1. d = [c EXCEPT !.onPage = onPage, !.bitmap = bitmap]
    BY <1>3, Zenon DEF TbAllocPage, Cache
  <2>2. /\ onPage \in [PhysPages -> SUBSET (Tbs \X {0, 1})]
        /\ bitmap \in [PhysPages -> (SUBSET Offsets) \cup {None}]
    BY <1>1, <1>3 DEF Cache
  <2>3. \A p \in PhysPages :
          /\ onPage[p] = IF p = q THEN c.onPage[p] \cup {<<t, n>>} ELSE c.onPage[p]
          /\ bitmap[p] = IF p = q THEN None ELSE c.bitmap[p]
    BY Zenon DEF Cache
  <2> HIDE DEF onPage, bitmap
  <2>4. /\ d \in Cache
        /\ d.next = c.next /\ d.valid = c.valid /\ d.block = c.block
        /\ d.jmp = c.jmp /\ d.jmpList = c.jmpList
        /\ d.onPage = onPage /\ d.bitmap = bitmap
    BY <2>1, <2>2, Zenon DEF Cache
  <2> QED
    BY <2>3, <2>4, Zenon DEF Listed
<1> QED
  BY <1>2, <1>3, Zenon

\* Cache d is cache c with the new block b.
Added(c, d, b) ==
  /\ d.next = c.next + 1
  /\ d.valid = c.valid \cup {c.next}
  /\ d.block[c.next] = b
  /\ \A t \in c.valid : d.block[t] = c.block[t]
  /\ \A p \in PhysPages :
       d.onPage[p] = c.onPage[p] \cup {e \in {c.next} \X {0, 1} : PageOf(b, e[2]) = p}

\* tb_link_page puts a block in that is on no list and that no exit leads to.
LEMMA LinkPageFact ==
  ASSUME NEW c, CacheOK(c), c.next <= MaxTbs, NEW b \in Block,
         b.page2 # None => b.pc[1] + 1 \in VirtPages, NEW d, d = TbLinkPage(c, b)
  PROVE  /\ CacheOK(d)
         /\ Added(c, d, b)
         /\ \A l \in Links : d.jmp[l] = IF l[1] = c.next THEN OpenJump ELSE c.jmp[l]
<1> DEFINE t == c.next
           block == [c.block EXCEPT ![t] = b]
           jmp == [l \in Links |-> IF l[1] = t THEN OpenJump ELSE c.jmp[l]]
           jmpList == [c.jmpList EXCEPT ![t] = {}]
           new == [c EXCEPT !.next = t + 1, !.valid = @ \cup {t}, !.block = block,
                            !.jmp = jmp, !.jmpList = jmpList]
           one == TbAllocPage(new, t, 0)
<1>0. c \in Cache
  BY Zenon DEF CacheOK
<1>1. t \in Tbs /\ t + 1 \in 1 .. MaxTbs + 1 /\ t \notin c.valid /\ t # None
  BY <1>0, TbAssumption DEF Cache, Tbs, CacheOK, BlocksOK
<1>2. d = TbAllocPage(one, t, 1)
  BY <1>0, Zenon DEF TbLinkPage, Cache
<1>3. /\ new \in Cache
      /\ new.next = t + 1 /\ new.valid = c.valid \cup {t} /\ new.block = block
      /\ new.jmp = jmp /\ new.jmpList = jmpList
      /\ new.onPage = c.onPage /\ new.bitmap = c.bitmap
  <2>1. block \in [Tbs -> Block \cup {None}]
    BY <1>0, <1>1, Zenon DEF Cache
  <2>2. jmp \in [Links -> Jump]
    BY <1>0, Zenon DEF Cache, OpenJump, Jump
  <2>3. jmpList \in [Tbs -> SUBSET Links]
    BY <1>0, <1>1, Zenon DEF Cache
  <2> HIDE DEF block, jmp, jmpList
  <2> QED
    BY <1>0, <1>1, <2>1, <2>2, <2>3, Zenon DEF Cache
<1>4. block[t] = b /\ \A u \in c.valid : block[u] = c.block[u]
  BY <1>0, <1>1, Zenon DEF Cache
<1> HIDE DEF new, block
<1>5. Listed(new, one, t, 0, PageOf(b, 0))
  <2>1. new.block[t] = b
    BY <1>3, <1>4, Zenon
  <2> QED
    BY <1>1, <1>3, <2>1, AllocPageFact, Zenon
<1> HIDE DEF one
<1>6. Listed(one, d, t, 1, PageOf(b, 1))
  <2>1. one \in Cache /\ one.block[t] = b
    BY <1>3, <1>4, <1>5, Zenon DEF Listed
  <2> QED
    BY <1>1, <1>2, <2>1, AllocPageFact, Zenon
<1>7. \A p \in PhysPages :
        d.onPage[p] = c.onPage[p] \cup (IF p = PageOf(b, 0) THEN {<<t, 0>>} ELSE {})
                                 \cup (IF p = PageOf(b, 1) THEN {<<t, 1>>} ELSE {})
  <2> TAKE p \in PhysPages
  <2>1. one.onPage[p] = IF p = PageOf(b, 0) THEN c.onPage[p] \cup {<<t, 0>>}
                                            ELSE c.onPage[p]
    BY <1>3, <1>5, Zenon DEF Listed
  <2>2. d.onPage[p] = IF p = PageOf(b, 1) THEN one.onPage[p] \cup {<<t, 1>>}
                                          ELSE one.onPage[p]
    BY <1>6, Zenon DEF Listed
  <2> HIDE DEF t
  <2> QED
    BY <2>1, <2>2, Zenon
<1>8. Added(c, d, b)
  <2>1. \A p \in PhysPages : {e \in {t} \X {0, 1} : PageOf(b, e[2]) = p}
          = (IF p = PageOf(b, 0) THEN {<<t, 0>>} ELSE {})
              \cup (IF p = PageOf(b, 1) THEN {<<t, 1>>} ELSE {})
    OBVIOUS
  <2>2. /\ d.next = c.next + 1
        /\ d.valid = c.valid \cup {c.next}
        /\ d.block[c.next] = b
        /\ \A u \in c.valid : d.block[u] = c.block[u]
    BY <1>3, <1>4, <1>5, <1>6 DEF Listed
  <2> QED
    BY <1>7, <2>1, <2>2, Zenon DEF Added
<1>9. PagesOK(d)
  <2> SUFFICES ASSUME NEW p \in PhysPages
               PROVE  /\ d.onPage[p] = {e \in d.valid \X {0, 1} :
                                          PageOf(d.block[e[1]], e[2]) = p}
                      /\ d.bitmap[p] # None => Bitmap(d, p) \subseteq d.bitmap[p]
    BY Zenon DEF PagesOK
  <2>1. c.onPage[p] = {e \in c.valid \X {0, 1} : PageOf(c.block[e[1]], e[2]) = p}
    BY Zenon DEF CacheOK, PagesOK
  <2>2. d.onPage[p] = {e \in d.valid \X {0, 1} : PageOf(d.block[e[1]], e[2]) = p}
    BY <1>8, <2>1 DEF Added
  <2>3. ASSUME d.bitmap[p] # None PROVE Bitmap(d, p) \subseteq d.bitmap[p]
    <3>1. /\ one.bitmap[p] = IF p = PageOf(b, 0) THEN None ELSE new.bitmap[p]
          /\ one.onPage[p] = IF p = PageOf(b, 0) THEN new.onPage[p] \cup {<<t, 0>>}
                                                 ELSE new.onPage[p]
      BY <1>5, Zenon DEF Listed
    <3>2. /\ d.bitmap[p] = IF p = PageOf(b, 1) THEN None ELSE one.bitmap[p]
          /\ d.onPage[p] = IF p = PageOf(b, 1) THEN one.onPage[p] \cup {<<t, 1>>}
                                               ELSE one.onPage[p]
      BY <1>6, Zenon DEF Listed
    <3>3. p # PageOf(b, 0) /\ p # PageOf(b, 1)
      BY <2>3, <3>1, <3>2, Zenon
    <3>4. d.bitmap[p] = c.bitmap[p] /\ d.onPage[p] = c.onPage[p]
      BY <1>3, <3>1, <3>2, <3>3, Zenon
    <3>5. \A e \in c.onPage[p] : d.block[e[1]] = c.block[e[1]]
      BY <1>8, <2>1, Zenon DEF Added
    <3>6. Bitmap(d, p) = Bitmap(c, p)
      BY <3>4, <3>5 DEF Bitmap
    <3> QED
      BY <2>3, <3>4, <3>6, Zenon DEF CacheOK, PagesOK
  <2> QED
    BY <2>2, <2>3, Zenon
<1>10. BlocksOK(d)
  BY <1>0, <1>8 DEF Added, BlocksOK, CacheOK, Cache, Tbs
<1>11. \A l \in Links : d.jmp[l] = IF l[1] = t THEN OpenJump ELSE c.jmp[l]
  BY <1>3, <1>5, <1>6 DEF Listed
<1>12. \A u \in Tbs : d.jmpList[u] = IF u = t THEN {} ELSE c.jmpList[u]
  BY <1>0, <1>3, <1>5, <1>6 DEF Cache, Listed
<1>13. ASSUME NEW l \in Links PROVE LinkOK(d, l)
  <2>1. LinkOK(c, l)
    BY ZenonT(30) DEF CacheOK, LinksOK
  <2>2. CASE l[1] = t
    BY <1>8, <1>11, <2>2 DEF LinkOK, Added, OpenJump
  <2>3. CASE l[1] # t
    <3>1. d.jmp[l] = c.jmp[l] /\ (l[1] \in d.valid <=> l[1] \in c.valid)
      BY <1>8, <1>11, <2>3, Zenon DEF Added
    <3>2. l[1] < d.next => l[1] < c.next
      BY <1>0, <1>8, <2>3 DEF Added, Links, Tbs, Cache
    <3> QED
      BY <1>8, <2>1, <3>1, <3>2, Zenon DEF LinkOK, Added
  <2> QED
    BY <2>2, <2>3, Zenon
<1>14. ListsOK(d)
  <2> SUFFICES ASSUME NEW u \in d.valid
               PROVE  d.jmpList[u] = {l \in Links : l[1] \in d.valid /\ d.jmp[l].dest = u}
    BY Zenon DEF ListsOK
  <2>1. u \in Tbs /\ u # None
    BY <1>6, TbAssumption DEF Cache, Tbs, Listed
  <2>2. \A l \in Links : l[1] \in d.valid /\ d.jmp[l].dest = u
                         <=> l[1] \in c.valid /\ c.jmp[l].dest = u
    <3> SUFFICES ASSUME NEW l \in Links
                 PROVE  l[1] \in d.valid /\ d.jmp[l].dest = u
                        <=> l[1] \in c.valid /\ c.jmp[l].dest = u
      OBVIOUS
    <3>1. CASE l[1] = t
      BY <1>1, <1>11, <2>1, <3>1 DEF OpenJump
    <3>2. CASE l[1] # t
      BY <1>8, <1>11, <3>2, Zenon DEF Added
    <3> QED
      BY <3>1, <3>2, Zenon
  <2>3. CASE u = t
    <3>1. \A l \in Links : l[1] \in c.valid => c.jmp[l].dest # t
      BY <1>1, Zenon DEF CacheOK, LinksOK, LinkOK
    <3> QED
      BY <1>1, <1>12, <2>2, <2>3, <3>1, Zenon
  <2>4. CASE u # t
    BY <1>8, <1>12, <2>1, <2>2, <2>4 DEF Added, CacheOK, LinksOK, ListsOK
  <2> QED
    BY <2>3, <2>4, Zenon
<1> QED
  BY <1>6, <1>8, <1>9, <1>10, <1>11, <1>13, <1>14, Zenon DEF CacheOK, LinksOK, Listed

--------------------------------------------------------------------------------
\* tb_add_jump: the exit is free only if its block is valid, and then it leads to a
\* block on one of its pages.
LEMMA AddJumpFact ==
  ASSUME NEW c, CacheOK(c), NEW l \in Links, NEW t \in c.valid, l[1] < c.next,
         l[1] \in c.valid => Follows(c.block[l[1]], c.block[t]),
         NEW d, d = TbAddJump(c, l, t)
  PROVE  /\ CacheOK(d)
         /\ d.next = c.next /\ d.valid = c.valid /\ d.block = c.block
         /\ d.onPage = c.onPage
<1>0. c \in Cache
  BY Zenon DEF CacheOK
<1>1. CASE c.jmp[l].dest # None \/ c.jmp[l].closed
  <2>1. d = c
    BY <1>1, Zenon DEF TbAddJump
  <2> QED
    BY <2>1, Zenon
<1>2. CASE ~(c.jmp[l].dest # None \/ c.jmp[l].closed)
  <2> DEFINE jump == [dest |-> t, closed |-> FALSE, code |-> t]
             jmp == [c.jmp EXCEPT ![l] = jump]
             jmpList == [c.jmpList EXCEPT ![t] = c.jmpList[t] \cup {l}]
  <2>1. t \in Tbs /\ t # None
    BY <1>0, TbAssumption DEF Cache, Tbs
  <2>2. d = [c EXCEPT !.jmp = jmp, !.jmpList = jmpList]
    BY <1>0, <1>2, Zenon DEF TbAddJump, Cache
  <2>3. jmp \in [Links -> Jump]
    BY <1>0, <2>1, Zenon DEF Cache, Jump
  <2>4. jmpList \in [Tbs -> SUBSET Links]
    BY <1>0, Zenon DEF Cache
  <2>5. /\ d \in Cache
        /\ d.next = c.next /\ d.valid = c.valid /\ d.block = c.block
        /\ d.onPage = c.onPage /\ d.bitmap = c.bitmap
        /\ d.jmp = jmp /\ d.jmpList = jmpList
    <3> HIDE DEF jmp, jmpList
    <3> QED
      BY <1>0, <2>2, <2>3, <2>4, Zenon DEF Cache
  <2>6. l[1] \in c.valid
    BY <1>2, Zenon DEF CacheOK, LinksOK, LinkOK
  <2>7. BlocksOK(d)
    BY <2>5, ZenonT(30) DEF BlocksOK, CacheOK
  <2>8. PagesOK(d)
    <3>1. \A p \in PhysPages : Bitmap(d, p) = Bitmap(c, p)
      BY <2>5 DEF Bitmap
    <3> QED
      BY <2>5, <3>1 DEF PagesOK, CacheOK
  <2>9. \A k \in Links : d.jmp[k] = IF k = l THEN jump ELSE c.jmp[k]
    BY <1>0, <2>5 DEF Cache
  <2>10. \A u \in Tbs : d.jmpList[u] = IF u = t THEN c.jmpList[t] \cup {l} ELSE c.jmpList[u]
    BY <1>0, <2>5, ZenonT(30) DEF Cache
  <2>11. ASSUME NEW k \in Links PROVE LinkOK(d, k)
    <3>1. CASE k = l
      <4>1. d.jmp[k] = jump
        BY <2>9, <3>1, Zenon
      <4>2. d.jmp[k].dest = t /\ d.jmp[k].code = t /\ ~d.jmp[k].closed
        BY <4>1
      <4> QED
        BY <2>5, <2>6, <3>1, <4>2, Zenon DEF LinkOK
    <3>2. CASE k # l
      <4>1. d.jmp[k] = c.jmp[k]
        BY <2>9, <3>2, Zenon
      <4>2. LinkOK(c, k)
        BY Zenon DEF CacheOK, LinksOK
      <4> QED
        BY <2>5, <4>1, <4>2, Zenon DEF LinkOK
    <3> QED
      BY <3>1, <3>2, Zenon
  <2>12. ListsOK(d)
    <3> SUFFICES ASSUME NEW u \in c.valid
                 PROVE  d.jmpList[u] = {k \in Links : k[1] \in c.valid /\ d.jmp[k].dest = u}
      BY <2>5 DEF ListsOK
    <3>1. u \in Tbs /\ u # None
      BY <1>0, TbAssumption DEF Cache, Tbs
    <3>2. c.jmpList[u] = {k \in Links : k[1] \in c.valid /\ c.jmp[k].dest = u}
      BY Zenon DEF CacheOK, LinksOK, ListsOK
    <3>3. d.jmp[l].dest = t /\ c.jmp[l].dest = None
      BY <1>2, <2>9
    <3>4. \A k \in Links : k # l => d.jmp[k] = c.jmp[k]
      BY <2>9, Zenon
    <3>5. CASE u = t
      <4>1. d.jmpList[u] = c.jmpList[u] \cup {l}
        BY <2>10, <3>1, <3>5, Zenon
      <4> QED
        BY <2>6, <3>1, <3>2, <3>3, <3>4, <3>5, <4>1, Zenon
    <3>6. CASE u # t
      <4>1. d.jmpList[u] = c.jmpList[u]
        BY <2>10, <3>1, <3>6, Zenon
      <4> QED
        BY <3>1, <3>2, <3>3, <3>4, <3>6, <4>1, Zenon
    <3> QED
      BY <3>5, <3>6, Zenon
  <2> QED
    BY <2>5, <2>7, <2>8, <2>11, <2>12, Zenon DEF CacheOK, LinksOK
<1> QED
  BY <1>1, <1>2, Zenon

\* A block that is mapped as translated can run: whatever it reaches by native jumps
\* is mapped as translated too.
LEMMA MappedBlockMayRun ==
  ASSUME NEW c, CacheOK(c), NEW t \in c.valid, MappedAsTranslated(c.block[t])
  PROVE  \E tbs \in SUBSET Tbs : t \in tbs /\ ClosedUnderJumps(c, tbs)
<1> DEFINE tbs == {u \in c.valid : MappedAsTranslated(c.block[u])}
<1>1. tbs \in SUBSET Tbs /\ t \in tbs
  BY Zenon DEF CacheOK, Cache
<1>2. ASSUME NEW l \in Links, l[1] \in tbs PROVE c.jmp[l].code \in tbs \cup {None}
  <2>1. LinkOK(c, l)
    BY Zenon DEF CacheOK, LinksOK
  <2>2. CASE c.jmp[l].dest = None
    BY <1>2, <2>1, <2>2, Zenon DEF LinkOK
  <2>3. CASE c.jmp[l].dest # None
    <3> DEFINE u == c.jmp[l].dest
               b == c.block[l[1]]
    <3>1. c.jmp[l].code = u /\ u \in c.valid /\ Follows(b, c.block[u])
      BY <1>2, <2>1, <2>3, Zenon DEF LinkOK
    <3>2. MappedAsTranslated(b) /\ b \in Block
      BY <1>2, Zenon DEF CacheOK, BlocksOK
    <3> HIDE DEF u, b
    <3>3. MappedAsTranslated(c.block[u])
      <4>1. b.pc[1] \in Int
        BY <3>2, TbAssumption DEF Block, Pcs, VirtPages
      <4> QED
        BY <3>1, <3>2, <4>1 DEF Follows, MappedAsTranslated, PageOf
    <3> QED
      BY <3>1, <3>3, Zenon
  <2> QED
    BY <2>2, <2>3, Zenon
<1>3. \A u \in tbs : u < c.next
  BY Zenon DEF CacheOK, BlocksOK
<1>4. ClosedUnderJumps(c, tbs)
  BY <1>2, <1>3, Zenon DEF ClosedUnderJumps
<1> QED
  BY <1>1, <1>4, Zenon

\* The exit of block t in cache c may be patched to lead to block u.
MayBePatched(c, t, u) ==
  /\ t < c.next
  /\ c.block[u].page2 = None
  /\ t \in c.valid => /\ MappedAsTranslated(c.block[t])
                      /\ c.block[u].pc[1] \in VirtPagesOf(c.block[t])

\* What holds after fetch_and_run_tb entered block t, which it found in cache c.
Entered(t, c) ==
  /\ CacheOK(cache')
  /\ cache'.next = c.next /\ cache'.valid = c.valid /\ cache'.block = c.block
  /\ cache'.onPage = c.onPage
  /\ cur' = t /\ prev' = None
  /\ RunningOK' /\ PrevOK'

LEMMA EnterFact ==
  ASSUME NEW c, CacheOK(c), NEW t \in c.valid, MappedAsTranslated(c.block[t]),
         prev \in Links \cup {None},
         \/ cache' = c
         \/ prev # None /\ MayBePatched(c, prev[1], t) /\ cache' = TbAddJump(c, prev, t),
         cur' = t, prev' = None, map' = map
  PROVE  Entered(t, c)
<1>1. /\ CacheOK(cache')
      /\ cache'.next = c.next /\ cache'.valid = c.valid /\ cache'.block = c.block
      /\ cache'.onPage = c.onPage
  <2>1. CASE cache' = c
    BY <2>1, Zenon
  <2>2. CASE prev # None /\ MayBePatched(c, prev[1], t) /\ cache' = TbAddJump(c, prev, t)
    <3> DEFINE l == prev
               b == c.block[l[1]]
    <3>1. l \in Links /\ l[1] < c.next
      BY <2>2, Zenon DEF MayBePatched
    <3>2. ASSUME l[1] \in c.valid PROVE Follows(b, c.block[t])
      <4>1. /\ c.block[t].page2 = None
            /\ MappedAsTranslated(b) /\ c.block[t].pc[1] \in VirtPagesOf(b)
        BY <2>2, <3>2, Zenon DEF MayBePatched
      <4>2. b \in Block /\ map[c.block[t].pc[1]] = c.block[t].page
        BY <3>2, Zenon DEF CacheOK, BlocksOK, MappedAsTranslated
      <4>3. b.pc[1] \in Int /\ b.page # None
        BY <4>2, TbAssumption DEF Block, Pcs, VirtPages, PhysPages
      <4> HIDE DEF b
      <4> QED
        BY <4>1, <4>2, <4>3 DEF Follows, MappedAsTranslated, PageOf, VirtPagesOf
    <3> HIDE DEF l
    <3>3. cache' = TbAddJump(c, l, t)
      BY <2>2, Zenon DEF l
    <3> QED
      BY <3>1, <3>2, <3>3, AddJumpFact
  <2> QED
    BY <2>1, <2>2, Zenon
<1>2. RunningOK'
  <2>1. cache'.block[t] = c.block[t] /\ t \in cache'.valid
    BY <1>1, Zenon
  <2> DEFINE d == cache'
  <2>2. \E tbs \in SUBSET Tbs : t \in tbs /\ ClosedUnderJumps(d, tbs)
    <3>1. CacheOK(d) /\ t \in d.valid /\ MappedAsTranslated(d.block[t])
      BY <1>1, <2>1, Zenon
    <3> HIDE DEF d
    <3> QED
      BY <3>1, MappedBlockMayRun, Zenon
  <2>3. \A tbs \in SUBSET Tbs : ClosedUnderJumps(d, tbs) => ClosedUnderJumps(cache, tbs)'
    BY Zenon DEF ClosedUnderJumps, MappedAsTranslated
  <2> QED
    BY <2>2, <2>3, Zenon DEF RunningOK
<1>3. PrevOK'
  BY Zenon DEF PrevOK
<1> QED
  BY <1>1, <1>2, <1>3, Zenon DEF Entered

--------------------------------------------------------------------------------
\* The steps.

\* The block that runs now is one of a cache and is current.
EntersCurrent ==
  /\ cur' \in cache'.valid \ (stale' \ unseen')
  /\ MappedAsTranslated(cache'.block[cur'])

\* A block found by tb_find_fast or tb_find_slow.
LEMMA FoundStep ==
  ASSUME TbInv, NEW pc \in Pcs, MayFollow(pc), ~flushPending,
         NEW t \in Matches(cache, pc),
         \/ cache' = cache
         \/ /\ prev # None /\ cache.block[t].page2 = None
            /\ cache' = TbAddJump(cache, prev, t),
         cur' = t, prev' = None, invalidated' = FALSE,
         \/ jmpCache' = jmpCache
         \/ jmpCache' = [jmpCache EXCEPT ![pc] = t],
         UNCHANGED <<map, dirty, fast, flushPending, stale, unseen>>
  PROVE  TbInv' /\ EntersCurrent
<1>0. TbTypeOK /\ CacheOK(cache) /\ PrevOK /\ SecondPagesAreMapped /\ stale \subseteq unseen
  BY Zenon DEF TbInv
<1>1. t \in cache.valid /\ cache.block[t].pc = pc /\ cache.block[t].page = map[pc[1]]
  BY Zenon DEF Matches
<1>2. MappedAsTranslated(cache.block[t])
  BY <1>0, <1>1, Zenon DEF MappedAsTranslated, SecondPagesAreMapped
<1>3. prev # None /\ cache.block[t].page2 = None => MayBePatched(cache, prev[1], t)
  BY <1>0, <1>1, Zenon DEF MayBePatched, PrevOK, MayFollow
<1>4. Entered(t, cache)
  <2>1. \/ cache' = cache
        \/ prev # None /\ MayBePatched(cache, prev[1], t) /\ cache' = TbAddJump(cache, prev, t)
    BY <1>3, Zenon
  <2>2. prev \in Links \cup {None}
    BY <1>0, Zenon DEF TbTypeOK
  <2> QED
    BY <1>0, <1>1, <1>2, <2>1, <2>2, EnterFact, Zenon
<1>5. TbTypeOK'
  <2>1. jmpCache' \in [Pcs -> Tbs \cup {None}] /\ t \in Tbs
    BY <1>0, <1>1, Zenon DEF TbTypeOK, Cache
  <2>2. cache' \in Cache /\ cache'.next = cache.next /\ cache'.valid = cache.valid
    BY <1>4, Zenon DEF Entered, CacheOK
  <2> QED
    BY <1>0, <2>1, <2>2, Zenon DEF TbTypeOK
<1>6. SecondPagesAreMapped'
  BY <1>0, <1>4, Zenon DEF SecondPagesAreMapped, Entered
<1>7. CodePagesAreProtected'
  BY <1>4, Zenon DEF CodePagesAreProtected, Entered, TbInv
<1>8. JumpCacheIsCurrent'
  <2> SUFFICES ASSUME NEW q \in Pcs, jmpCache'[q] # None
               PROVE  /\ jmpCache'[q] \in cache'.valid
                      /\ cache'.block[jmpCache'[q]].pc = q
                      /\ MappedAsTranslated(cache'.block[jmpCache'[q]])
    BY Zenon DEF JumpCacheIsCurrent, MappedAsTranslated
  <2>1. jmpCache'[q] = jmpCache[q] \/ (q = pc /\ jmpCache'[q] = t)
    BY <1>0, Zenon DEF TbTypeOK
  <2>2. CASE jmpCache'[q] = jmpCache[q]
    BY <1>4, <2>2, Zenon DEF TbInv, JumpCacheIsCurrent, Entered
  <2>3. CASE q = pc /\ jmpCache'[q] = t
    BY <1>1, <1>2, <1>4, <2>3, Zenon DEF Entered
  <2> QED
    BY <2>1, <2>2, <2>3, Zenon
<1>9. EntersCurrent
  BY <1>0, <1>1, <1>2, <1>4, Zenon DEF EntersCurrent, Entered
<1> QED
  BY <1>0, <1>4, <1>5, <1>6, <1>7, <1>8, <1>9, Zenon DEF TbInv, Entered

LEMMA FetchCachedStep ==
  ASSUME TbInv, NEW pc \in Pcs, FetchCached(pc)
  PROVE  TbInv' /\ EntersCurrent
<1> DEFINE t == Cached(pc)
<1>1. t # None /\ t = jmpCache[pc] /\ cache.block[t].pc = pc
  BY Zenon DEF FetchCached, Cached
<1>2. t \in Matches(cache, pc)
  <2>1. t \in cache.valid /\ MappedAsTranslated(cache.block[t])
    BY <1>1, Zenon DEF FetchCached, TbInv, JumpCacheIsCurrent
  <2> QED
    BY <1>1, <2>1, Zenon DEF Matches, MappedAsTranslated
<1> HIDE DEF t
<1>3. Enter(t, cache, invalidated)
  BY Zenon DEF FetchCached, t
<1>4. /\ \/ cache' = cache
         \/ /\ prev # None /\ cache.block[t].page2 = None
            /\ cache' = TbAddJump(cache, prev, t)
      /\ cur' = t /\ prev' = None /\ invalidated' = FALSE
  BY <1>3, Zenon DEF Enter
<1> QED
  BY <1>2, <1>4, FoundStep, Zenon DEF FetchCached

LEMMA FetchHashedStep ==
  ASSUME TbInv, NEW pc \in Pcs, FetchHashed(pc)
  PROVE  TbInv' /\ EntersCurrent
<1>1. PICK t \in Matches(cache, pc) : /\ jmpCache' = [jmpCache EXCEPT ![pc] = t]
                                      /\ Enter(t, cache, FALSE)
  BY Zenon DEF FetchHashed
<1>2. /\ \/ cache' = cache
         \/ /\ prev # None /\ cache.block[t].page2 = None
            /\ cache' = TbAddJump(cache, prev, t)
      /\ cur' = t /\ prev' = None /\ invalidated' = FALSE
  BY <1>1, Zenon DEF Enter
<1> QED
  BY <1>1, <1>2, FoundStep, Zenon DEF FetchHashed

LEMMA EmptyCacheFact ==
  /\ CacheOK(EmptyCache)
  /\ EmptyCache.next = 1 /\ EmptyCache.valid = {}
  /\ \A p \in PhysPages : EmptyCache.onPage[p] = {}
<1> DEFINE c == EmptyCache
<1>1. /\ c.next = 1 /\ c.valid = {}
      /\ \A p \in PhysPages : c.onPage[p] = {} /\ c.bitmap[p] = None
  BY Zenon DEF EmptyCache
<1>2. c \in Cache
  <2>1. OpenJump \in Jump
    BY Zenon DEF OpenJump, Jump
  <2>2. 1 \in 1 .. MaxTbs + 1
    BY TbAssumption
  <2> QED
    BY <2>1, <2>2, Zenon DEF EmptyCache, Cache
<1>3. \A l \in Links : l[1] < c.next => l[1] \in c.valid
  BY <1>1 DEF Links, Tbs
<1> HIDE DEF c
<1>4. BlocksOK(c) /\ PagesOK(c)
  BY <1>1, Zenon DEF BlocksOK, PagesOK
<1>5. LinksOK(c)
  BY <1>1, <1>3, Zenon DEF LinksOK, LinkOK, ListsOK
<1> QED
  BY <1>1, <1>2, <1>4, <1>5, Zenon DEF CacheOK, c

\* The block that tb_gen_code makes is one of those modelled, and it is mapped.
LEMMA NewBlockFact ==
  ASSUME TbTypeOK, NEW pc \in Pcs, NEW len \in 1 .. NOffsets,
         pc[2] + len > NOffsets => pc[1] + 1 \in VirtPages
  PROVE  /\ NewBlock(pc, len) \in Block
         /\ NewBlock(pc, len).pc = pc
         /\ NewBlock(pc, len).page2 # None => pc[1] + 1 \in VirtPages
         /\ MappedAsTranslated(NewBlock(pc, len))
<1>1. pc[1] \in VirtPages /\ map[pc[1]] \in PhysPages
  BY Zenon DEF Pcs, TbTypeOK
<1>2. CASE pc[2] + len > NOffsets
  <2>1. map[pc[1] + 1] \in PhysPages
    BY <1>2, Zenon DEF TbTypeOK
  <2>2. NewBlock(pc, len) = [pc |-> pc, len |-> len, page |-> map[pc[1]],
                             page2 |-> map[pc[1] + 1]]
    BY <1>2, Zenon DEF NewBlock
  <2> QED
    BY <1>1, <1>2, <2>1, <2>2 DEF Block, MappedAsTranslated
<1>3. CASE ~(pc[2] + len > NOffsets)
  <2>1. NewBlock(pc, len) = [pc |-> pc, len |-> len, page |-> map[pc[1]], page2 |-> None]
    BY <1>3, Zenon DEF NewBlock
  <2> QED
    BY <1>1, <2>1 DEF Block, MappedAsTranslated
<1> QED
  BY <1>2, <1>3, Zenon

LEMMA FetchTranslatedStep ==
  ASSUME TbInv, NEW pc \in Pcs, NEW len \in 1 .. NOffsets, FetchTranslatedApart(pc, len)
  PROVE  TbInv' /\ EntersCurrent
<1> DEFINE b == NewBlock(pc, len)
           found == IF flushPending THEN EmptyCache ELSE cache
           full == found.next > MaxTbs
           flushed == flushPending \/ full
           base == IF full THEN EmptyCache ELSE found
           new == TbLinkPage(base, b)
           t == new.next - 1
           protect == {p \in PhysPages : cache'.onPage[p] # {}
                                         /\ (flushed \/ cache.onPage[p] = {})}
           kept == IF flushed THEN NoJmpCache ELSE jmpCache
<1>0. TbTypeOK /\ CacheOK(cache) /\ PrevOK
  BY Zenon DEF TbInv
<1>1. /\ MayFollow(pc)
      /\ pc[2] + len > NOffsets => pc[1] + 1 \in VirtPages
      /\ Enter(t, new, full)
      /\ jmpCache' = [kept EXCEPT ![pc] = cur']
      /\ dirty' = [p \in PhysPages |-> dirty[p] /\ p \notin protect]
      /\ fast' = [v \in VirtPages |-> fast[v] /\ map[v] \notin protect]
      /\ flushPending' = FALSE
      /\ stale' = IF flushed THEN {} ELSE stale
      /\ unseen' = IF flushed THEN {} ELSE unseen
      /\ map' = map
  BY Zenon DEF FetchTranslatedApart, FetchTranslated
<1>2. /\ b \in Block /\ b.pc = pc /\ MappedAsTranslated(b)
      /\ b.page2 # None => b.pc[1] + 1 \in VirtPages
  BY <1>0, <1>1, NewBlockFact, Zenon
<1>3. /\ CacheOK(base) /\ base.next <= MaxTbs
      /\ IF flushed THEN base = EmptyCache ELSE base = cache
  BY <1>0, EmptyCacheFact, TbAssumption DEF CacheOK, Cache
<1> HIDE DEF b, found, base, new, t, protect, kept
<1>4. CacheOK(new) /\ Added(base, new, b)
  BY <1>2, <1>3, LinkPageFact DEF new
<1>5. /\ base.next \in Nat /\ t = base.next /\ t \in new.valid /\ new.block[t] = b
      /\ t \in Tbs
  BY <1>3, <1>4 DEF Added, CacheOK, Cache, Tbs, t
<1>6. /\ \/ cache' = new
         \/ /\ prev # None /\ ~full /\ new.block[t].page2 = None
            /\ cache' = TbAddJump(new, prev, t)
      /\ cur' = t /\ prev' = None /\ invalidated' = FALSE
  BY <1>1, Zenon DEF Enter
<1>7. ~flushed => /\ base = cache /\ ~flushPending /\ stale \subseteq unseen
                  /\ SecondPagesAreMapped /\ JumpCacheIsCurrent /\ CodePagesAreProtected
  BY <1>3, Zenon DEF TbInv
<1>8. flushed => /\ base.valid = {} /\ \A p \in PhysPages : base.onPage[p] = {}
  BY <1>3, EmptyCacheFact, Zenon
<1>9. prev # None /\ ~full => ~flushed
  BY Zenon DEF TbInv
<1> HIDE DEF full, flushed
<1>10. ASSUME prev # None, ~full, new.block[t].page2 = None
       PROVE  MayBePatched(new, prev[1], t)
  <2>1. base = cache
    BY <1>7, <1>9, <1>10, Zenon
  <2>2. prev[1] < cache.next /\ prev[1] \in Tbs
    BY <1>0, <1>10, Zenon DEF PrevOK, TbTypeOK, Links
  <2>3. prev[1] < new.next
    BY <1>4, <1>5, <2>1, <2>2 DEF Added, Tbs
  <2>4. ASSUME prev[1] \in new.valid
        PROVE  prev[1] \in cache.valid /\ new.block[prev[1]] = cache.block[prev[1]]
    BY <1>4, <1>5, <2>1, <2>2, <2>4 DEF Added, Tbs
  <2>5. prev[1] \in cache.valid => /\ MappedAsTranslated(cache.block[prev[1]])
                                   /\ pc[1] \in VirtPagesOf(cache.block[prev[1]])
    BY <1>0, <1>1, <1>10, Zenon DEF PrevOK, MayFollow
  <2> QED
    BY <1>2, <1>5, <1>10, <2>3, <2>4, <2>5, Zenon DEF MayBePatched
<1>11. Entered(t, new)
  <2>1. \/ cache' = new
        \/ prev # None /\ MayBePatched(new, prev[1], t) /\ cache' = TbAddJump(new, prev, t)
    BY <1>6, <1>10, Zenon
  <2>2. prev \in Links \cup {None}
    BY <1>0, Zenon DEF TbTypeOK
  <2> QED
    BY <1>1, <1>2, <1>4, <1>5, <1>6, <2>1, <2>2, EnterFact, Zenon
<1>12. \A u \in new.valid : u = t \/ (~flushed /\ u \in cache.valid /\ new.block[u] = cache.block[u])
  BY <1>4, <1>5, <1>7, <1>8, Zenon DEF Added
<1>13. /\ stale' \subseteq unseen' /\ unseen' \subseteq stale'
       /\ stale' \subseteq new.valid
  <2>1. ~flushed => stale \subseteq new.valid
    BY <1>0, <1>4, <1>7, Zenon DEF Added, TbTypeOK
  <2> QED
    BY <1>0, <1>1, <1>7, <2>1, Zenon DEF TbTypeOK
<1>14. jmpCache' \in [Pcs -> Tbs \cup {None}]
       /\ \A q \in Pcs : jmpCache'[q] # None =>
            \/ q = pc /\ jmpCache'[q] = t
            \/ ~flushed /\ jmpCache'[q] = jmpCache[q]
  <2>1. kept \in [Pcs -> Tbs \cup {None}]
    BY <1>0, Zenon DEF kept, NoJmpCache, TbTypeOK
  <2>2. \A q \in Pcs : kept[q] # None => ~flushed /\ kept[q] = jmpCache[q]
    BY Zenon DEF kept, NoJmpCache
  <2> QED
    BY <1>1, <1>5, <1>6, <2>1, <2>2, Zenon
<1>15. TbTypeOK'
  <2>1. cache' \in Cache /\ cache'.next = new.next /\ cache'.valid = new.valid
    BY <1>11, Zenon DEF Entered, CacheOK
  <2>2. new.valid \subseteq 1 .. new.next - 1
    BY <1>4 DEF CacheOK, BlocksOK, Cache, Tbs
  <2>3. dirty' \in [PhysPages -> BOOLEAN] /\ fast' \in [VirtPages -> BOOLEAN]
    BY <1>0, <1>1, Zenon DEF TbTypeOK
  <2>4. cur' \in Tbs \cup {None} /\ prev' \in Links \cup {None}
        /\ invalidated' \in BOOLEAN /\ flushPending' \in BOOLEAN
        /\ stale' \subseteq cache'.valid /\ unseen' \subseteq stale'
        /\ map' \in [VirtPages -> PhysPages]
    BY <1>0, <1>1, <1>5, <1>6, <1>13, <2>1, Zenon DEF TbTypeOK
  <2> QED
    BY <1>14, <2>1, <2>2, <2>3, <2>4, Zenon DEF TbTypeOK
<1>16. SecondPagesAreMapped'
  <2> SUFFICES ASSUME NEW u \in new.valid, new.block[u].page2 # None
               PROVE  map[new.block[u].pc[1] + 1] = new.block[u].page2
    BY <1>1, <1>11, Zenon DEF SecondPagesAreMapped, Entered
  <2>1. CASE u = t
    BY <1>2, <1>5, <2>1, Zenon DEF MappedAsTranslated
  <2>2. CASE ~flushed /\ u \in cache.valid /\ new.block[u] = cache.block[u]
    BY <1>7, <2>2, Zenon DEF SecondPagesAreMapped
  <2> QED
    BY <1>12, <2>1, <2>2, Zenon
<1>17. CodePagesAreProtected'
  <2> SUFFICES ASSUME NEW p \in PhysPages, new.onPage[p] # {}
               PROVE  /\ ~dirty'[p]
                      /\ \A v \in VirtPages : map[v] = p => ~fast'[v]
    BY <1>1, <1>11, Zenon DEF CodePagesAreProtected, Entered
  <2>1. /\ dirty'[p] = (dirty[p] /\ p \notin protect)
        /\ \A v \in VirtPages : fast'[v] = (fast[v] /\ map[v] \notin protect)
    BY <1>1, Zenon
  <2>2. CASE p \in protect
    BY <2>1, <2>2, Zenon
  <2>3. CASE p \notin protect
    <3>1. ~flushed /\ cache.onPage[p] # {}
      BY <1>11, <2>3, Zenon DEF protect, Entered
    <3>2. ~dirty[p] /\ \A v \in VirtPages : map[v] = p => ~fast[v]
      BY <1>7, <3>1, Zenon DEF CodePagesAreProtected
    <3> QED
      BY <2>1, <3>2, Zenon
  <2> QED
    BY <2>2, <2>3, Zenon
<1>18. JumpCacheIsCurrent'
  <2> DEFINE Fits(q, u) == /\ u \in new.valid
                           /\ new.block[u].pc = q
                           /\ MappedAsTranslated(new.block[u])
  <2>0. \A u \in base.valid : u \in new.valid /\ new.block[u] = base.block[u]
    BY <1>4, Zenon DEF Added
  <2>1. cache'.valid = new.valid /\ cache'.block = new.block /\ map' = map
    BY <1>1, <1>11, Zenon DEF Entered
  <2>2. ASSUME NEW q \in Pcs, jmpCache'[q] # None
        PROVE  Fits(q, jmpCache'[q])
    <3>1. CASE q = pc /\ jmpCache'[q] = t
      BY <1>2, <1>5, <3>1, Zenon
    <3>2. CASE ~flushed /\ jmpCache'[q] = jmpCache[q]
      <4>1. /\ jmpCache[q] \in cache.valid /\ cache.block[jmpCache[q]].pc = q
            /\ MappedAsTranslated(cache.block[jmpCache[q]])
        BY <1>7, <2>2, <3>2, Zenon DEF JumpCacheIsCurrent
      <4>2. jmpCache[q] \in new.valid /\ new.block[jmpCache[q]] = cache.block[jmpCache[q]]
        <5>1. base = cache
          BY <1>7, <3>2, Zenon
        <5> QED
          BY <2>0, <4>1, <5>1, Zenon
      <4> QED
        BY <3>2, <4>1, <4>2, Zenon
    <3> HIDE DEF Fits
    <3>3. \/ q = pc /\ jmpCache'[q] = t
          \/ ~flushed /\ jmpCache'[q] = jmpCache[q]
      BY <1>14, <2>2, Zenon
    <3> QED
      BY <3>1, <3>2, <3>3, Zenon
  <2>3. ASSUME NEW q \in Pcs, jmpCache'[q] # None
        PROVE  /\ jmpCache'[q] \in cache'.valid
               /\ cache'.block[jmpCache'[q]].pc = q
               /\ MappedAsTranslated(cache.block[jmpCache[q]])'
    <3>1. Fits(q, jmpCache'[q])
      BY <2>2, <2>3, Zenon
    <3> QED
      BY <2>1, <3>1, Zenon DEF MappedAsTranslated
  <2> QED
    BY <2>3, Zenon DEF JumpCacheIsCurrent
<1>19. EntersCurrent
  BY <1>2, <1>5, <1>6, <1>11, <1>13, Zenon DEF EntersCurrent, Entered
<1> QED
  BY <1>1, <1>6, <1>11, <1>13, <1>15, <1>16, <1>17, <1>18, <1>19, Zenon DEF TbInv, Entered

LEMMA ExitStep ==
  ASSUME TbInv, NEW n \in Exits, Exit(n)
  PROVE  /\ TbInv'
         /\ cur \in cache.valid /\ cur' # None => EntersCurrent
<1> DEFINE l == <<cur, n>>
<1>0. TbTypeOK /\ CacheOK(cache) /\ cur # None /\ ~flushPending /\ stale \subseteq unseen
  BY Zenon DEF TbInv, Exit
<1>1. l \in Links /\ l[1] = cur /\ cur' = cache.jmp[l].code
  BY <1>0, Zenon DEF TbTypeOK, Links, Exit
<1>2. PICK tbs \in SUBSET Tbs : cur \in tbs /\ ClosedUnderJumps(cache, tbs)
  BY <1>0, Zenon DEF TbInv, RunningOK
<1>3. cur' \in tbs \cup {None}
  BY <1>1, <1>2, Zenon DEF ClosedUnderJumps
<1>4. UNCHANGED <<map, dirty, fast, jmpCache, cache, invalidated, flushPending, stale, unseen>>
  BY Zenon DEF Exit
<1>5. TbTypeOK'
  <2>1. cur' \in Tbs \cup {None}
    BY <1>3, Zenon
  <2>2. prev' \in Links \cup {None}
    BY <1>1, Zenon DEF Exit
  <2> QED
    BY <1>0, <1>4, <2>1, <2>2, Zenon DEF TbTypeOK
<1>6. RunningOK'
  <2>1. ClosedUnderJumps(cache, tbs)'
    BY <1>2, <1>4, Zenon DEF ClosedUnderJumps, MappedAsTranslated
  <2> QED
    BY <1>3, <2>1, Zenon DEF RunningOK
<1>7. PrevOK'
  <2> SUFFICES ASSUME prev' # None
               PROVE  /\ cur' = None /\ prev'[1] < cache.next
                      /\ prev'[1] \in cache.valid =>
                           MappedAsTranslated(cache.block[prev'[1]])
    BY <1>4, Zenon DEF PrevOK, MappedAsTranslated
  <2>1. cur' = None /\ prev'[1] = cur
    BY Zenon DEF Exit
  <2>2. cur < cache.next /\ (cur \in cache.valid => MappedAsTranslated(cache.block[cur]))
    BY <1>2, Zenon DEF ClosedUnderJumps
  <2> QED
    BY <2>1, <2>2, Zenon
<1>8. CacheOK(cache') /\ SecondPagesAreMapped'
  BY <1>0, <1>4, Zenon DEF TbInv, SecondPagesAreMapped
<1>9. CodePagesAreProtected' /\ JumpCacheIsCurrent'
  BY <1>4, Zenon DEF TbInv, CodePagesAreProtected, JumpCacheIsCurrent, MappedAsTranslated
<1>10. ASSUME cur \in cache.valid, cur' # None PROVE EntersCurrent
  <2>1. cur' \in cache.valid
    BY <1>0, <1>1, <1>10, Zenon DEF CacheOK, LinksOK, LinkOK
  <2>2. MappedAsTranslated(cache.block[cur'])
    BY <1>2, <1>3, <1>10, <2>1, Zenon DEF ClosedUnderJumps
  <2> QED
    BY <1>0, <1>4, <2>1, <2>2, Zenon DEF EntersCurrent
<1> QED
  BY <1>0, <1>4, <1>5, <1>6, <1>7, <1>8, <1>9, <1>10, Zenon DEF TbInv

LEMMA ExitLoopStep ==
  ASSUME TbInv, ExitLoop
  PROVE  TbInv'
<1>1. /\ cur' = None /\ prev' = None
      /\ UNCHANGED <<map, dirty, fast, jmpCache, cache, invalidated, flushPending, stale, unseen>>
  BY Zenon DEF ExitLoop
<1>2. TbTypeOK'
  BY <1>1, Zenon DEF TbInv, TbTypeOK
<1>3. RunningOK' /\ PrevOK'
  BY <1>1, Zenon DEF RunningOK, PrevOK
<1>4. CacheOK(cache') /\ (~flushPending' => stale' \subseteq unseen' /\ SecondPagesAreMapped')
  BY <1>1, Zenon DEF TbInv, SecondPagesAreMapped
<1>5. CodePagesAreProtected' /\ JumpCacheIsCurrent'
  BY <1>1, Zenon DEF TbInv, CodePagesAreProtected, JumpCacheIsCurrent, MappedAsTranslated
<1> QED
  BY <1>1, <1>2, <1>3, <1>4, <1>5, Zenon DEF TbInv

\* A block that runs, or whose exit was left last, stays what it is while the cache
\* and the page tables do.
LEMMA SameRun ==
  ASSUME RunningOK, PrevOK, UNCHANGED <<map, cache, cur, prev>>
  PROVE  RunningOK' /\ PrevOK'
<1>1. \A tbs : ClosedUnderJumps(cache, tbs) => ClosedUnderJumps(cache, tbs)'
  BY Zenon DEF ClosedUnderJumps, MappedAsTranslated
<1> QED
  BY <1>1, Zenon DEF RunningOK, PrevOK, MappedAsTranslated

\* A page that has a block is on is on that block's list.
LEMMA BytesAreListed ==
  ASSUME NEW c, CacheOK(c), NEW p \in PhysPages, NEW o, NEW t \in BlocksWith(c, {<<p, o>>})
  PROVE  c.onPage[p] # {}
<1>1. PICK n \in {0, 1} : PageOf(c.block[t], n) = p
  BY DEF BlocksWith, HasByte
<1>2. <<t, n>> \in c.onPage[p]
  BY <1>1, Zenon DEF BlocksWith, CacheOK, PagesOK
<1> QED
  BY <1>2, Zenon

LEMMA WriteFastStep ==
  ASSUME TbInv, NEW v \in VirtPages, NEW o \in Offsets, WriteFast(v, o)
  PROVE  TbInv'
<1>0. TbTypeOK /\ CacheOK(cache) /\ cur # None /\ ~flushPending /\ stale \subseteq unseen /\ fast[v]
  BY Zenon DEF TbInv, WriteFast
<1>1. map[v] \in PhysPages
  BY <1>0, Zenon DEF TbTypeOK
<1>2. cache.onPage[map[v]] = {}
  BY <1>0, <1>1, Zenon DEF TbInv, CodePagesAreProtected
<1>3. BlocksWith(cache, {<<map[v], o>>}) = {}
  BY <1>0, <1>1, <1>2, BytesAreListed, Zenon
<1>4. UNCHANGED <<map, dirty, fast, jmpCache, cache, invalidated,
                  flushPending, cur, prev, stale, unseen>>
  BY <1>0, <1>3, Zenon DEF WriteFast
<1>5. TbTypeOK'
  BY <1>0, <1>4, Zenon DEF TbTypeOK
<1>6. RunningOK' /\ PrevOK'
  BY <1>4, SameRun, Zenon DEF TbInv
<1>7. CacheOK(cache') /\ SecondPagesAreMapped'
  BY <1>0, <1>4, Zenon DEF TbInv, SecondPagesAreMapped
<1>8. CodePagesAreProtected' /\ JumpCacheIsCurrent'
  BY <1>4, Zenon DEF TbInv, CodePagesAreProtected, JumpCacheIsCurrent, MappedAsTranslated
<1> QED
  BY <1>0, <1>4, <1>5, <1>6, <1>7, <1>8, Zenon DEF TbInv

\* A write that the cache is not told of changes the history only.
LEMMA UnseenWriteStep ==
  ASSUME TbInv, NEW p \in PhysPages, NEW o \in Offsets, UnseenWrite(p, o)
  PROVE  TbInv'
<1> DEFINE hits == BlocksWith(cache, {<<p, o>>}) \ stale
<1>1. /\ stale' = stale \cup hits /\ unseen' = unseen \cup hits
      /\ UNCHANGED <<map, dirty, fast, jmpCache, cache, invalidated,
                     flushPending, cur, prev>>
  BY Zenon DEF UnseenWrite
<1>2. hits \subseteq cache.valid
  BY Zenon DEF BlocksWith
<1> HIDE DEF hits
<1>3. TbTypeOK'
  BY <1>1, <1>2, Zenon DEF TbInv, TbTypeOK
<1>4. RunningOK' /\ PrevOK'
  BY <1>1, SameRun, Zenon DEF TbInv
<1>5. CacheOK(cache') /\ (~flushPending' => stale' \subseteq unseen' /\ SecondPagesAreMapped')
  BY <1>1, Zenon DEF TbInv, SecondPagesAreMapped
<1>6. CodePagesAreProtected' /\ JumpCacheIsCurrent'
  BY <1>1, Zenon DEF TbInv, CodePagesAreProtected, JumpCacheIsCurrent, MappedAsTranslated
<1> QED
  BY <1>1, <1>3, <1>4, <1>5, <1>6, Zenon DEF TbInv

LEMMA TlbFillStep ==
  ASSUME TbInv, NEW v \in VirtPages, TlbFill(v)
  PROVE  TbInv'
<1>0. TbTypeOK /\ map[v] \in PhysPages /\ dirty[map[v]] \in BOOLEAN
  BY Zenon DEF TbInv, TbTypeOK
<1>1. /\ fast' = [fast EXCEPT ![v] = dirty[map[v]]]
      /\ UNCHANGED <<map, dirty, jmpCache, cache, invalidated, flushPending, cur, prev, stale, unseen>>
  BY Zenon DEF TlbFill
<1>2. TbTypeOK'
  <2>1. fast' \in [VirtPages -> BOOLEAN]
    BY <1>0, <1>1, Zenon DEF TbTypeOK
  <2> QED
    BY <1>0, <1>1, <2>1, Zenon DEF TbTypeOK
<1>3. RunningOK' /\ PrevOK'
  BY <1>1, SameRun, Zenon DEF TbInv
<1>4. CacheOK(cache') /\ (~flushPending' => stale' \subseteq unseen' /\ SecondPagesAreMapped')
  BY <1>1, Zenon DEF TbInv, SecondPagesAreMapped
<1>5. CodePagesAreProtected'
  <2> SUFFICES ASSUME ~flushPending, NEW p \in PhysPages, cache.onPage[p] # {}
               PROVE  ~dirty[p] /\ \A u \in VirtPages : map[u] = p => ~fast'[u]
    BY <1>1, Zenon DEF CodePagesAreProtected
  <2>1. ~dirty[p] /\ \A u \in VirtPages : map[u] = p => ~fast[u]
    BY Zenon DEF TbInv, CodePagesAreProtected
  <2>2. \A u \in VirtPages : fast'[u] = IF u = v THEN dirty[map[v]] ELSE fast[u]
    BY <1>0, <1>1, Zenon DEF TbTypeOK
  <2> QED
    BY <2>1, <2>2, Zenon
<1>6. JumpCacheIsCurrent'
  BY <1>1, Zenon DEF TbInv, JumpCacheIsCurrent, MappedAsTranslated
<1> QED
  BY <1>1, <1>2, <1>3, <1>4, <1>5, <1>6, Zenon DEF TbInv

LEMMA RemapStep ==
  ASSUME TbInv, NEW v \in VirtPages, NEW p \in PhysPages, RemapFirst(v, p)
  PROVE  TbInv'
<1>0. TbTypeOK /\ CacheOK(cache)
  BY Zenon DEF TbInv
<1>1. /\ cur = None /\ prev = None
      /\ map' = [map EXCEPT ![v] = p]
      /\ fast' = [fast EXCEPT ![v] = FALSE]
      /\ jmpCache' = [pc \in Pcs |-> IF pc[1] \in {v - 1, v} THEN None ELSE jmpCache[pc]]
      /\ UNCHANGED <<dirty, cache, invalidated, flushPending, cur, prev, stale, unseen>>
  BY Zenon DEF RemapFirst, Remap
<1>2. \A u \in VirtPages : map'[u] = IF u = v THEN p ELSE map[u]
  BY <1>0, <1>1, Zenon DEF TbTypeOK
<1>3. TbTypeOK'
  <2>1. /\ map' \in [VirtPages -> PhysPages]
        /\ fast' \in [VirtPages -> BOOLEAN]
        /\ jmpCache' \in [Pcs -> Tbs \cup {None}]
    BY <1>0, <1>1, Zenon DEF TbTypeOK
  <2> QED
    BY <1>0, <1>1, <2>1, Zenon DEF TbTypeOK
<1>4. RunningOK' /\ PrevOK'
  BY <1>1, Zenon DEF RunningOK, PrevOK
<1>5. ASSUME NEW t \in cache.valid, cache.block[t].pc[1] + 1 # v
      PROVE  cache.block[t].page2 # None =>
               map'[cache.block[t].pc[1] + 1] = map[cache.block[t].pc[1] + 1]
  BY <1>0, <1>2, <1>5, Zenon DEF CacheOK, BlocksOK
<1>6. ~flushPending => SecondPagesAreMapped'
  <2> SUFFICES ASSUME ~flushPending, NEW t \in cache.valid, cache.block[t].page2 # None
               PROVE  map'[cache.block[t].pc[1] + 1] = cache.block[t].page2
    BY <1>1, Zenon DEF SecondPagesAreMapped
  <2>1. cache.block[t].pc[1] + 1 # v
    BY Zenon DEF RemapFirst
  <2> QED
    BY <1>5, <2>1, Zenon DEF TbInv, SecondPagesAreMapped
<1>7. CodePagesAreProtected'
  <2> SUFFICES ASSUME ~flushPending, NEW q \in PhysPages, cache.onPage[q] # {}
               PROVE  ~dirty[q] /\ \A u \in VirtPages : map'[u] = q => ~fast'[u]
    BY <1>1, Zenon DEF CodePagesAreProtected
  <2>1. ~dirty[q] /\ \A u \in VirtPages : map[u] = q => ~fast[u]
    BY Zenon DEF TbInv, CodePagesAreProtected
  <2>2. \A u \in VirtPages : fast'[u] = IF u = v THEN FALSE ELSE fast[u]
    BY <1>0, <1>1, Zenon DEF TbTypeOK
  <2> QED
    BY <1>2, <2>1, <2>2, Zenon
<1>8. JumpCacheIsCurrent'
  <2> SUFFICES ASSUME ~flushPending, NEW pc \in Pcs, jmpCache'[pc] # None
               PROVE  /\ jmpCache'[pc] \in cache.valid
                      /\ cache.block[jmpCache'[pc]].pc = pc
                      /\ MappedAsTranslated(cache.block[jmpCache[pc]])'
    BY <1>1, Zenon DEF JumpCacheIsCurrent
  <2> DEFINE t == jmpCache[pc]
  <2>1. jmpCache'[pc] = t /\ pc[1] # v /\ pc[1] # v - 1
    BY <1>1, Zenon
  <2>2. t \in cache.valid /\ cache.block[t].pc = pc /\ MappedAsTranslated(cache.block[t])
    BY <2>1, Zenon DEF TbInv, JumpCacheIsCurrent
  <2> HIDE DEF t
  <2>3. pc[1] \in VirtPages /\ pc[1] + 1 # v
    BY <2>1, TbAssumption DEF Pcs, VirtPages
  <2>4. map'[pc[1]] = map[pc[1]]
    BY <1>2, <2>1, <2>3, Zenon
  <2>5. cache.block[t].page2 # None => map'[pc[1] + 1] = map[pc[1] + 1]
    BY <1>5, <2>2, <2>3, Zenon
  <2>6. cache' = cache
    BY <1>1, Zenon
  <2> QED
    BY <2>1, <2>2, <2>4, <2>5, <2>6, Zenon DEF MappedAsTranslated
<1> QED
  BY <1>0, <1>1, <1>3, <1>4, <1>6, <1>7, <1>8, Zenon DEF TbInv

LEMMA TbFlushStep ==
  ASSUME TbInv, TbFlush
  PROVE  TbInv'
<1>1. /\ cache' = EmptyCache /\ jmpCache' = NoJmpCache
      /\ cur' = None /\ prev' = None /\ stale' = {} /\ unseen' = {}
      /\ UNCHANGED <<map, dirty, fast, invalidated, flushPending>>
  BY Zenon DEF TbFlush
<1>2. /\ CacheOK(cache') /\ cache'.valid = {}
      /\ \A p \in PhysPages : cache'.onPage[p] = {}
  BY <1>1, EmptyCacheFact, Zenon
<1>3. TbTypeOK'
  <2>1. jmpCache' \in [Pcs -> Tbs \cup {None}]
    BY <1>1, Zenon DEF NoJmpCache
  <2> QED
    BY <1>1, <1>2, <2>1, Zenon DEF TbInv, TbTypeOK, CacheOK
<1>4. RunningOK' /\ PrevOK' /\ SecondPagesAreMapped'
  BY <1>1, <1>2, Zenon DEF RunningOK, PrevOK, SecondPagesAreMapped
<1>5. CodePagesAreProtected' /\ JumpCacheIsCurrent'
  BY <1>1, <1>2, Zenon DEF CodePagesAreProtected, JumpCacheIsCurrent, NoJmpCache
<1> QED
  BY <1>1, <1>2, <1>3, <1>4, <1>5, Zenon DEF TbInv

LEMMA SwitchStateStep ==
  ASSUME TbInv, NEW d \in DirtyLeft, NEW j \in JmpCachesLeft, SwitchState(d, j)
  PROVE  TbInv'
<1>1. /\ cur' = None /\ prev' = None
      /\ dirty' = d /\ jmpCache' = j /\ fast' = [v \in VirtPages |-> FALSE]
      /\ flushPending' = TRUE /\ stale' = cache.valid /\ unseen' = {}
      /\ UNCHANGED <<map, cache, invalidated>>
  BY Zenon DEF SwitchState
<1>2. TbTypeOK'
  <2>1. dirty' \in [PhysPages -> BOOLEAN] /\ fast' \in [VirtPages -> BOOLEAN]
    BY <1>1, Zenon DEF TbInv, TbTypeOK, DirtyLeft
  <2>2. jmpCache' \in [Pcs -> Tbs \cup {None}]
    BY <1>1, Zenon DEF TbInv, TbTypeOK, JmpCachesLeft, NoJmpCache
  <2> QED
    BY <1>1, <2>1, <2>2, Zenon DEF TbInv, TbTypeOK
<1>3. RunningOK' /\ PrevOK' /\ CodePagesAreProtected' /\ JumpCacheIsCurrent'
  BY <1>1, Zenon DEF RunningOK, PrevOK, CodePagesAreProtected, JumpCacheIsCurrent
<1> QED
  BY <1>1, <1>2, <1>3, Zenon DEF TbInv

--------------------------------------------------------------------------------
\* Steps that invalidate blocks.

LEMMA LeftAll ==
  ASSUME NEW c \in Cache
  PROVE  Left(c, c, {})
BY Zenon DEF Left, Cache

\* What runs and what tb_jmp_cache has stay good when blocks go.
LEMMA LeftStep ==
  ASSUME TbInv, NEW tbs, CacheOK(cache'), Left(cache, cache', tbs),
         jmpCache' = Forgotten(tbs),
         (cur' = cur /\ prev' = prev) \/ (cur' = None /\ prev' = None),
         UNCHANGED <<map, flushPending>>
  PROVE  /\ RunningOK' /\ PrevOK'
         /\ ~flushPending => SecondPagesAreMapped'
         /\ JumpCacheIsCurrent'
         /\ jmpCache' \in [Pcs -> Tbs \cup {None}]
         /\ cur' \in Tbs \cup {None} /\ prev' \in Links \cup {None}
         /\ cache' \in Cache /\ cache'.valid \subseteq 1 .. cache'.next - 1
<1>0. TbTypeOK /\ CacheOK(cache)
  BY Zenon DEF TbInv
<1>1. RunningOK'
  <2> SUFFICES ASSUME cur' # None, cur' = cur
               PROVE  \E us \in SUBSET Tbs : cur' \in us /\ ClosedUnderJumps(cache, us)'
    BY Zenon DEF RunningOK
  <2>1. PICK us \in SUBSET Tbs : cur \in us /\ ClosedUnderJumps(cache, us)
    BY Zenon DEF TbInv, RunningOK
  <2>2. ClosedUnderJumps(cache, us)'
    BY <2>1, Zenon DEF ClosedUnderJumps, MappedAsTranslated, Left
  <2> QED
    BY <2>1, <2>2, Zenon
<1>2. PrevOK'
  BY Zenon DEF TbInv, PrevOK, Left, MappedAsTranslated
<1>3. ~flushPending => SecondPagesAreMapped'
  BY Zenon DEF TbInv, SecondPagesAreMapped, Left
<1>4. \A pc \in Pcs : jmpCache'[pc] = IF jmpCache[pc] \in tbs THEN None ELSE jmpCache[pc]
  BY Zenon DEF Forgotten
<1>5. JumpCacheIsCurrent'
  <2> SUFFICES ASSUME ~flushPending, NEW pc \in Pcs, jmpCache'[pc] # None
               PROVE  /\ jmpCache'[pc] \in cache'.valid
                      /\ cache'.block[jmpCache'[pc]].pc = pc
                      /\ MappedAsTranslated(cache'.block[jmpCache'[pc]])
    BY Zenon DEF JumpCacheIsCurrent, MappedAsTranslated
  <2>1. jmpCache'[pc] = jmpCache[pc] /\ jmpCache[pc] \notin tbs
    BY <1>4, Zenon
  <2>2. /\ jmpCache[pc] \in cache.valid /\ cache.block[jmpCache[pc]].pc = pc
        /\ MappedAsTranslated(cache.block[jmpCache[pc]])
    BY <2>1, Zenon DEF TbInv, JumpCacheIsCurrent
  <2> QED
    BY <2>1, <2>2, Zenon DEF Left
<1>6. jmpCache' \in [Pcs -> Tbs \cup {None}]
  BY <1>0, Zenon DEF TbTypeOK, Forgotten
<1>7. cur' \in Tbs \cup {None} /\ prev' \in Links \cup {None}
  BY <1>0, Zenon DEF TbTypeOK
<1>8. cache' \in Cache /\ cache'.valid \subseteq 1 .. cache'.next - 1
  BY DEF CacheOK, BlocksOK, Cache, Tbs
<1> QED
  BY <1>1, <1>2, <1>3, <1>5, <1>6, <1>7, <1>8, Zenon

\* Pages without blocks are the only ones that become dirty, and writes to a page that
\* the bitmap lets pass hit no block.
LEMMA WriteNotDirtyStep ==
  ASSUME TbInv, NEW v \in VirtPages, NEW o \in Offsets, NEW build \in BOOLEAN,
         NEW leave \in BOOLEAN, WriteNotDirty(v, o, build, leave)
  PROVE  TbInv' /\ cur' \in {cur, None}
<1> DEFINE p == map[v]
           code == IF cache.bitmap[p] = None THEN Offsets ELSE cache.bitmap[p]
           look == ~dirty[p] /\ o \in code
           hits == IF look THEN Hits(cache, p, {o}) ELSE {}
           new == IF look THEN InvalidateRange(cache, p, {o}, build) ELSE cache
           clean == dirty[p] \/ (look /\ cache'.onPage[p] = {})
<1>0. TbTypeOK /\ CacheOK(cache) /\ cur # None /\ ~flushPending /\ stale \subseteq unseen
  BY Zenon DEF TbInv, WriteNotDirty
<1>1. /\ cache' = new
      /\ jmpCache' = Forgotten(hits)
      /\ invalidated' = (invalidated \/ hits # {})
      /\ dirty' = [dirty EXCEPT ![p] = clean]
      /\ fast' = [fast EXCEPT ![v] = clean]
      /\ stale' = (stale \cap cache'.valid) \cup BlocksWith(cache', {<<p, o>>})
      /\ unseen' = (unseen \cap cache'.valid) \ BlocksWith(cache', {<<p, o>>})
      /\ (cur' = cur /\ prev' = prev) \/ (cur' = None /\ prev' = None)
      /\ UNCHANGED <<map, flushPending>>
  BY Zenon DEF WriteNotDirty
<1>2. p \in PhysPages /\ dirty[p] \in BOOLEAN
  BY <1>0, Zenon DEF TbTypeOK
<1>3. CacheOK(new) /\ Left(cache, new, hits) /\ BlocksWith(new, {<<p, o>>}) = {}
  <2>1. CASE look
    <3>1. RangeInvalidated(cache, p, {o}, new)
      BY <2>1, Zenon DEF RangeInvalidated
    <3>2. hits = Hits(cache, p, {o})
      BY <2>1, Zenon
    <3>3. {p} \X {o} = {<<p, o>>}
      OBVIOUS
    <3> HIDE DEF new, hits, p
    <3>4. /\ CacheOK(new) /\ Left(cache, new, Hits(cache, p, {o}))
          /\ BlocksWith(new, {p} \X {o}) = {}
      BY <1>0, <1>2, <3>1, RangeFact, Zenon
    <3> QED
      BY <3>2, <3>3, <3>4, Zenon
  <2>2. CASE ~look
    <3>1. new = cache /\ hits = {}
      BY <2>2, Zenon
    <3>2. cache \in Cache
      BY <1>0, Zenon DEF CacheOK
    <3>3. ASSUME NEW t \in BlocksWith(cache, {<<p, o>>}) PROVE FALSE
      <4>1. cache.onPage[p] # {}
        BY <1>0, <1>2, <3>3, BytesAreListed, Zenon
      <4>2. ~dirty[p]
        BY <1>0, <1>2, <4>1, Zenon DEF TbInv, CodePagesAreProtected
      <4>3. cache.bitmap[p] # None /\ o \notin cache.bitmap[p]
        BY <2>2, <4>2, Zenon
      <4>4. t \in cache.valid /\ \E n \in {0, 1} : /\ PageOf(cache.block[t], n) = p
                                                    /\ o \in OffsetsOn(cache.block[t], n)
        BY <3>3 DEF BlocksWith, HasByte
      <4>5. PICK n \in {0, 1} : PageOf(cache.block[t], n) = p /\ o \in OffsetsOn(cache.block[t], n)
        BY <4>4, Zenon
      <4>6. <<t, n>> \in cache.onPage[p]
        BY <1>0, <1>2, <4>4, <4>5 DEF CacheOK, PagesOK
      <4>7. o \in Bitmap(cache, p)
        BY <4>5, <4>6 DEF Bitmap
      <4> QED
        BY <1>0, <1>2, <4>3, <4>7, Zenon DEF CacheOK, PagesOK
    <3>4. Left(cache, cache, {})
      BY <3>2, LeftAll, Zenon
    <3>5. BlocksWith(cache, {<<p, o>>}) = {}
      BY <3>3, Zenon
    <3> HIDE DEF new, hits, p
    <3> QED
      BY <1>0, <3>1, <3>4, <3>5, Zenon
  <2> QED
    BY <2>1, <2>2, Zenon
<1>4. /\ stale' \subseteq unseen' /\ unseen' \subseteq stale'
      /\ stale' \subseteq cache'.valid
  BY <1>0, <1>1, <1>3, Zenon DEF TbTypeOK
<1>5. clean \in BOOLEAN
  BY <1>2, Zenon
<1>6. new.onPage[p] # {} => (clean = dirty[p])
  BY <1>1, <1>2, Zenon
<1> HIDE DEF new, hits, clean
<1>7. /\ RunningOK' /\ PrevOK' /\ SecondPagesAreMapped' /\ JumpCacheIsCurrent'
      /\ jmpCache' \in [Pcs -> Tbs \cup {None}]
      /\ cur' \in Tbs \cup {None} /\ prev' \in Links \cup {None}
      /\ cache' \in Cache /\ cache'.valid \subseteq 1 .. cache'.next - 1
  BY <1>0, <1>1, <1>3, LeftStep, Zenon
<1>8. TbTypeOK'
  <2>1. dirty' \in [PhysPages -> BOOLEAN] /\ fast' \in [VirtPages -> BOOLEAN]
    BY <1>0, <1>1, <1>5, Zenon DEF TbTypeOK
  <2>2. invalidated' \in BOOLEAN
    BY <1>1, Zenon
  <2> QED
    BY <1>0, <1>1, <1>4, <1>7, <2>1, <2>2, Zenon DEF TbTypeOK
<1>9. CodePagesAreProtected'
  <2> SUFFICES ASSUME NEW q \in PhysPages, new.onPage[q] # {}
               PROVE  ~dirty'[q] /\ \A u \in VirtPages : map[u] = q => ~fast'[u]
    BY <1>1, Zenon DEF CodePagesAreProtected
  <2>1. cache.onPage[q] # {}
    BY <1>3, Zenon DEF Left
  <2>2. ~dirty[q] /\ \A u \in VirtPages : map[u] = q => ~fast[u]
    BY <1>0, <2>1, Zenon DEF TbInv, CodePagesAreProtected
  <2>3. /\ dirty'[q] = IF q = p THEN clean ELSE dirty[q]
        /\ \A u \in VirtPages : fast'[u] = IF u = v THEN clean ELSE fast[u]
    BY <1>0, <1>1, Zenon DEF TbTypeOK
  <2>4. q = p => ~clean
    BY <1>6, <2>2, Zenon
  <2> QED
    BY <2>2, <2>3, <2>4, Zenon
<1> QED
  BY <1>0, <1>1, <1>3, <1>4, <1>7, <1>8, <1>9, Zenon DEF TbInv

LEMMA HostWriteStep ==
  ASSUME TbInv, NEW p \in PhysPages, NEW o \in Offsets, NEW len \in 1 .. NOffsets,
         HostWriteInPage(p, o, len)
  PROVE  TbInv'
<1> DEFINE offsets == o .. o + len - 1
           look == ~dirty[p]
           hits == IF look THEN Hits(cache, p, offsets) ELSE {}
<1>0. TbTypeOK /\ CacheOK(cache)
  BY Zenon DEF TbInv
<1>1. /\ cache' = IF look THEN InvalidateRange(cache, p, offsets, FALSE) ELSE cache
      /\ jmpCache' = Forgotten(hits)
      /\ invalidated' = (invalidated \/ hits # {})
      /\ stale' = (stale \cap cache'.valid) \cup BlocksWith(cache', HostBytes(p, o, len))
      /\ unseen' = (unseen \cap cache'.valid) \ BlocksWith(cache', HostBytes(p, o, len))
      /\ UNCHANGED <<map, dirty, fast, flushPending, cur, prev>>
  BY Zenon DEF HostWriteInPage, HostWrite
<1>2. HostBytes(p, o, len) \subseteq {p} \X offsets
  <2>1. Span(o, len, 1) = {}
    BY TbAssumption DEF HostWriteInPage, Span, Offsets
  <2>2. Span(o, len, 0) \subseteq offsets
    BY TbAssumption DEF Span, Offsets
  <2>3. HostBytes(p, o, len) = ({p + 0} \X Span(o, len, 0)) \cup ({p + 1} \X Span(o, len, 1))
    BY Zenon DEF HostBytes
  <2> QED
    BY <2>1, <2>2, <2>3, TbAssumption DEF PhysPages
<1>3. CacheOK(cache') /\ Left(cache, cache', hits)
  <2>1. CASE look
    <3>1. RangeInvalidated(cache, p, offsets, cache')
      BY <1>1, <2>1, Zenon DEF RangeInvalidated
    <3>2. hits = Hits(cache, p, offsets)
      BY <2>1, Zenon
    <3> HIDE DEF hits, offsets
    <3> QED
      BY <1>0, <3>1, <3>2, RangeFact, Zenon
  <2>2. CASE ~look
    <3>1. cache' = cache /\ hits = {}
      BY <1>1, <2>2, Zenon
    <3>2. Left(cache, cache, {})
      BY <1>0, LeftAll, Zenon DEF CacheOK
    <3> HIDE DEF hits
    <3> QED
      BY <1>0, <3>1, <3>2, Zenon
  <2> QED
    BY <2>1, <2>2, Zenon
<1>4. ~flushPending => stale' \subseteq unseen'
  <2> SUFFICES ASSUME ~flushPending, NEW t \in BlocksWith(cache', HostBytes(p, o, len))
               PROVE  FALSE
    BY <1>1, Zenon DEF TbInv
  <2>1. t \in BlocksWith(cache', {p} \X offsets)
    <3> HIDE DEF offsets
    <3> QED
      BY <1>2, Zenon DEF BlocksWith
  <2>2. CASE look
    <3>1. RangeInvalidated(cache, p, offsets, cache')
      BY <1>1, <2>2, Zenon DEF RangeInvalidated
    <3> HIDE DEF offsets
    <3>2. BlocksWith(cache', {p} \X offsets) = {}
      BY <1>0, <3>1, RangeFact, Zenon
    <3> QED
      BY <2>1, <3>2, Zenon
  <2>3. CASE ~look
    <3>1. cache.onPage[p] = {} /\ cache' = cache
      BY <1>1, <2>3, Zenon DEF TbInv, CodePagesAreProtected
    <3>2. \E x : t \in BlocksWith(cache, {<<p, x>>})
      <4> HIDE DEF offsets
      <4>1. PICK y \in {p} \X offsets : HasByte(cache.block[t], y)
        BY <2>1, <3>1, Zenon DEF BlocksWith
      <4>2. y = <<p, y[2]>>
        BY <4>1, SMT
      <4>3. HasByte(cache.block[t], <<p, y[2]>>) /\ t \in cache.valid
        BY <2>1, <3>1, <4>1, <4>2, Zenon DEF BlocksWith
      <4> QED
        BY <4>3, Zenon DEF BlocksWith
    <3> QED
      BY <1>0, <3>1, <3>2, BytesAreListed, Zenon
  <2> QED
    BY <2>2, <2>3, Zenon
<1>5. stale' \subseteq cache'.valid /\ unseen' \subseteq stale'
  BY <1>0, <1>1, Zenon DEF BlocksWith, TbTypeOK
<1> HIDE DEF hits
<1>6. /\ RunningOK' /\ PrevOK' /\ (~flushPending => SecondPagesAreMapped')
      /\ JumpCacheIsCurrent'
      /\ jmpCache' \in [Pcs -> Tbs \cup {None}]
      /\ cache' \in Cache /\ cache'.valid \subseteq 1 .. cache'.next - 1
  BY <1>1, <1>3, LeftStep, Zenon
<1>7. TbTypeOK'
  <2>1. invalidated' \in BOOLEAN
    BY <1>1, Zenon
  <2> QED
    BY <1>0, <1>1, <1>5, <1>6, <2>1, Zenon DEF TbTypeOK
<1>8. CodePagesAreProtected'
  <2>1. \A q \in PhysPages : cache'.onPage[q] # {} => cache.onPage[q] # {}
    BY <1>3, Zenon DEF Left
  <2> QED
    BY <1>1, <2>1, Zenon DEF TbInv, CodePagesAreProtected
<1> QED
  BY <1>0, <1>1, <1>3, <1>4, <1>6, <1>7, <1>8, Zenon DEF TbInv

--------------------------------------------------------------------------------
LEMMA InitTbInv == TbInit => TbInv
<1> SUFFICES ASSUME TbInit PROVE TbInv
  OBVIOUS
<1>1. /\ map \in [VirtPages -> PhysPages]
      /\ dirty \in [PhysPages -> BOOLEAN]
      /\ fast \in [VirtPages -> BOOLEAN]
      /\ jmpCache \in [Pcs -> Tbs \cup {None}]
  BY TbAssumption DEF TbInit, NoJmpCache, VirtPages, PhysPages
<1>2. /\ CacheOK(cache) /\ cache.valid = {}
      /\ \A p \in PhysPages : cache.onPage[p] = {}
  BY EmptyCacheFact, Zenon DEF TbInit
<1>3. TbTypeOK
  BY <1>1, <1>2, Zenon DEF TbInit, TbTypeOK, CacheOK
<1>4. RunningOK /\ PrevOK /\ SecondPagesAreMapped
  BY <1>2, Zenon DEF TbInit, RunningOK, PrevOK, SecondPagesAreMapped
<1>5. CodePagesAreProtected /\ JumpCacheIsCurrent
  BY <1>2, Zenon DEF TbInit, CodePagesAreProtected, JumpCacheIsCurrent, NoJmpCache
<1> QED
  BY <1>2, <1>3, <1>4, <1>5, Zenon DEF TbInit, TbInv

\* A step keeps the invariant, and a block that a valid one, or none, leads to is
\* current when it is entered.
LEMMA NextTbInv ==
  ASSUME TbInv, [TbNext]_tbVars
  PROVE  /\ TbInv'
         /\ cur' \notin {cur, None} /\ cur \in cache.valid \cup {None} => EntersCurrent
<1>1. CASE \E pc \in Pcs : FetchCached(pc) \/ FetchHashed(pc)
  BY <1>1, FetchCachedStep, FetchHashedStep, Zenon
<1>2. CASE \E pc \in Pcs, len \in 1 .. NOffsets : FetchTranslatedApart(pc, len)
  BY <1>2, FetchTranslatedStep, Zenon
<1>3. CASE \E n \in Exits : Exit(n)
  <2>1. cur # None
    BY <1>3, Zenon DEF Exit
  <2> QED
    BY <1>3, <2>1, ExitStep, Zenon
<1>4. CASE ExitLoop
  <2>1. cur' = None
    BY <1>4, Zenon DEF ExitLoop
  <2> QED
    BY <1>4, <2>1, ExitLoopStep, Zenon
<1>5. CASE \E v \in VirtPages, o \in Offsets : WriteFast(v, o)
  <2>1. cur' = cur
    BY <1>5, Zenon DEF WriteFast
  <2> QED
    BY <1>5, <2>1, WriteFastStep, Zenon
<1>6. CASE \E v \in VirtPages, o \in Offsets, build, leave \in BOOLEAN :
             WriteNotDirty(v, o, build, leave)
  BY <1>6, WriteNotDirtyStep, Zenon
<1>7. CASE \E p \in PhysPages, o \in Offsets, len \in 1 .. NOffsets :
             HostWriteInPage(p, o, len)
  <2>1. cur' = cur
    BY <1>7, Zenon DEF HostWriteInPage, HostWrite
  <2> QED
    BY <1>7, <2>1, HostWriteStep, Zenon
<1>8. CASE \E p \in PhysPages, o \in Offsets : UnseenWrite(p, o)
  <2>1. cur' = cur
    BY <1>8, Zenon DEF UnseenWrite
  <2> QED
    BY <1>8, <2>1, UnseenWriteStep, Zenon
<1>9. CASE \E v \in VirtPages : TlbFill(v)
  <2>1. cur' = cur
    BY <1>9, Zenon DEF TlbFill
  <2> QED
    BY <1>9, <2>1, TlbFillStep, Zenon
<1>10. CASE \E v \in VirtPages, p \in PhysPages : RemapFirst(v, p)
  <2>1. cur' = cur
    BY <1>10, Zenon DEF RemapFirst, Remap
  <2> QED
    BY <1>10, <2>1, RemapStep, Zenon
<1>11. CASE TbFlush
  <2>1. cur' = None
    BY <1>11, Zenon DEF TbFlush
  <2> QED
    BY <1>11, <2>1, TbFlushStep, Zenon
<1>12. CASE \E d \in DirtyLeft, j \in JmpCachesLeft : SwitchState(d, j)
  <2>1. cur' = cur
    BY <1>12, Zenon DEF SwitchState
  <2> QED
    BY <1>12, <2>1, SwitchStateStep, Zenon
<1>13. CASE UNCHANGED tbVars
  <2>1. UNCHANGED <<map, dirty, fast, jmpCache, cache, invalidated, flushPending, cur, prev, stale, unseen>>
    BY <1>13, Zenon DEF tbVars
  <2>2. RunningOK' /\ PrevOK'
    BY <2>1, SameRun, Zenon DEF TbInv
  <2>3. TbTypeOK' /\ CacheOK(cache')
    BY <2>1, Zenon DEF TbInv, TbTypeOK
  <2>4. ~flushPending' => stale' \subseteq unseen' /\ SecondPagesAreMapped'
    BY <2>1, Zenon DEF TbInv, SecondPagesAreMapped
  <2>5. CodePagesAreProtected' /\ JumpCacheIsCurrent'
    BY <2>1, Zenon DEF TbInv, CodePagesAreProtected, JumpCacheIsCurrent, MappedAsTranslated
  <2> QED
    BY <2>1, <2>2, <2>3, <2>4, <2>5, Zenon DEF TbInv
<1> QED
  BY <1>1, <1>2, <1>3, <1>4, <1>5, <1>6, <1>7, <1>8, <1>9, <1>10, <1>11, <1>12,
     <1>13, Zenon DEF TbNext

\* Every step of the emulator keeps the cache consistent.
LEMMA TbInvariant == TbSpec => []TbInv
<1>1. TbInv /\ [TbNext]_tbVars => TbInv'
  BY NextTbInv, Zenon
<1> QED
  BY <1>1, InitTbInv, PTL DEF TbSpec

\* A block that can be found was translated from what memory holds, whatever the guest
\* and the devices write; only a write that tells the cache nothing, of the MMU to a
\* page table or of a plugin, can make it otherwise.
THEOREM TbBlocksAreCurrent == TbSpec => []ValidBlocksAreCurrent
<1>1. TbInv => ValidBlocksAreCurrent
  BY Zenon DEF TbInv, ValidBlocksAreCurrent
<1> QED
  BY <1>1, TbInvariant, PTL

\* No store of the guest to a page with blocks on it goes through the TLB unnoticed.
THEOREM TbPagesAreProtected == TbSpec => []CodePagesAreProtected
<1>1. TbInv => CodePagesAreProtected
  BY Zenon DEF TbInv
<1> QED
  BY <1>1, TbInvariant, PTL

\* The lists and bitmaps of the pages are those of the blocks in tb_phys_hash.
THEOREM TbPageDescsAreExact == TbSpec => []PageDescsAreExact
<1>1. TbInv => PageDescsAreExact
  <2> SUFFICES ASSUME CacheOK(cache) PROVE PageDescsAreExact
    BY Zenon DEF TbInv
  <2>1. \A p \in PhysPages : \A e \in cache.onPage[p] : e[1] < cache.next
    BY DEF CacheOK, PagesOK, BlocksOK
  <2> QED
    BY <2>1, Zenon DEF CacheOK, PagesOK, PageDescsAreExact
<1> QED
  BY <1>1, TbInvariant, PTL

\* Patched jumps and tb_jmp_cache never outlive a block or its mapping.
THEOREM TbShortcutsAreCurrent == TbSpec => []ShortcutsAreCurrent
<1>1. TbInv => ShortcutsAreCurrent
  <2> SUFFICES ASSUME CacheOK(cache) PROVE JumpsAreListed
    BY Zenon DEF TbInv, ShortcutsAreCurrent
  <2> QED
    BY Zenon DEF CacheOK, LinksOK, LinkOK, ListsOK, JumpsAreListed
<1> QED
  BY <1>1, TbInvariant, PTL

\* Every block that is entered from a valid one, or from the loop, is mapped, and
\* current unless one of those writes hit it.
THEOREM TbEntersCurrent == TbSpec => EnteredBlocksAreCurrent
<1>1. TbInv /\ [TbNext]_tbVars =>
        [(cur' \notin {cur, None} /\ cur \in cache.valid \cup {None}) =>
           /\ cur' \in cache'.valid \ (stale' \ unseen')
           /\ MappedAsTranslated(cache'.block[cur'])]_tbVars
  BY NextTbInv, Zenon DEF EntersCurrent
<1> QED
  BY <1>1, TbInvariant, PTL DEF TbSpec, EnteredBlocksAreCurrent

================================================================================
