---------------------------- MODULE StateTlbProofs ----------------------------
(***************************************************************************)
(* Proofs about StateTlb for every number of states, pages and TLB entries.*)
(*                                                                         *)
(* The properties speak of the entries that give direct access.  The       *)
(* invariant speaks of all that point to an object, for m_tlbMap keeps     *)
(* those that map device memory too, and of the RAM TLB, whose entry for a *)
(* page survives a split if no entry of the TLB points to the page.        *)
(***************************************************************************)
EXTENDS StateTlb, TLAPS

\* An object is bound at its page, was created in an epoch that the address space
\* has reached, and its buffer exists.
BoundOK(s) ==
  \A p \in Pages : bound[s][p] # None =>
    /\ bound[s][p].page = p
    /\ bound[s][p].owner <= cowKey[s]
    /\ store[bound[s][p].buf] # Freed

\* An entry of the TLB that points to an object, direct or not, is up to date.
EntryOK(s, e) ==
  /\ e.direct => e.os # None
  /\ e.os # None =>
       /\ e.os = bound[s][e.os.page]
       /\ e.buf = e.os.buf
       /\ e.symb <=> ~AllConcrete(store[e.buf])
       /\ e.notOurs \/ IsOwnedByUs(s, e.os)

TlbOK(s) ==
  \A c \in Coords :
    /\ EntryOK(s, tlb[s][c])
    /\ \A o \in Object : <<o, c>> \in tlbMap[s] <=> tlb[s][c].os = o

CacheOK(s) == \A p \in Pages : memcache[s][p] # None => memcache[s][p] = bound[s][p]

\* An entry of the RAM TLB has the buffer of the page.  One that may be written may
\* outlive a split and then points to the unsplit object; one that may not points to
\* the object that is bound, and only appears if the page is concrete.
RamEntryOK(s, r, e) ==
  /\ e.page = None => e.os = None
  /\ e.page # None =>
       /\ RamIndex[e.page] = r
       /\ bound[s][e.page] # None
       /\ e.buf = bound[s][e.page].buf
       /\ e.os # None /\ e.os.page = e.page
       /\ e.notOurs <=> ~IsOwnedByUs(s, bound[s][e.page])
       /\ e.notOurs => e.os = bound[s][e.page] /\ AllConcrete(store[e.buf])

RamOK(s, ram) == \A r \in TlbSlots : RamEntryOK(s, r, ram[r])

StateOK(s) == BoundOK(s) /\ TlbOK(s) /\ CacheOK(s) /\ RamOK(s, ramTlb[s])

\* Buffers are shared between states only, at the same page, and not with the owner.
BufferSharing ==
  \A s, t \in States, p, q \in Pages :
    bound[s][p] # None /\ bound[t][q] # None /\ bound[s][p].buf = bound[t][q].buf =>
      p = q /\ (IsOwnedByUs(s, bound[s][p]) => s = t)

DeadStatesHoldNothing ==
  \A s \in States \ live : bound[s] = NoPages /\ memcache[s] = NoPages /\ ramTlb[s] = EmptyRamTlb

\* As long as the initial state has not forked there is no other.
RootComesFirst == cowKey[Root] >= 1 /\ (cowKey[Root] = 1 => live = {Root})

IInv ==
  /\ TypeOK
  /\ \A s \in States : StateOK(s)
  /\ BufferSharing
  /\ DeadStatesHoldNothing
  /\ RootComesFirst

-------------------------------------------------------------------------------
(***************************************************************************)
(* Most steps concern one state.  The others keep what they hold, and the  *)
(* buffers behind their pages.                                             *)
(***************************************************************************)
\* What StepsAreIsolated says of a step.
IsolatedStep ==
  /\ \A s, t \in live \cap live' :
       \/ s = t
       \/ \A p \in Pages : Contents(s, p)' = Contents(s, p)
       \/ \A p \in Pages : Contents(t, p)' = Contents(t, p)
  /\ \A t \in live' \ live, p \in Pages : Contents(t, p)' = Contents(active, p)

Untouched(t) ==
  /\ bound'[t] = bound[t] /\ cowKey'[t] = cowKey[t]
  /\ tlb'[t] = tlb[t] /\ tlbMap'[t] = tlbMap[t]
  /\ memcache'[t] = memcache[t] /\ ramTlb'[t] = ramTlb[t]

\* The buffers of state t still exist and are as concrete as they were.
StatusKept(t) ==
  \A p \in Pages : bound[t][p] # None =>
    /\ store'[bound[t][p].buf] # Freed
    /\ AllConcrete(store'[bound[t][p].buf]) <=> AllConcrete(store[bound[t][p].buf])

BuffersKept(t) ==
  \A p \in Pages : bound[t][p] # None => store'[bound[t][p].buf] = store[bound[t][p].buf]

LEMMA Types ==
  ASSUME TypeOK
  PROVE  /\ \A s \in States, p \in Pages :
              /\ bound[s][p] \in Object \cup {None}
              /\ memcache[s][p] \in Object \cup {None}
         /\ \A s \in States, c \in Coords : tlb[s][c] \in Entry
         /\ \A s \in States, r \in TlbSlots : ramTlb[s][r] \in RamEntry
         /\ \A s \in States : cowKey[s] \in Nat /\ tlbMap[s] \subseteq Object \X Coords
         /\ \A b \in BufIds : store[b] \in [Offsets -> Values] \cup {Freed}
         /\ None \notin Object /\ None \notin Pages /\ active \in States /\ live \subseteq States
         /\ \A o \in Object : o.page \in Pages /\ o.buf \in BufIds /\ o.owner \in Nat
BY TlbAssumption DEF TypeOK, Object

LEMMA KeepsState ==
  ASSUME TypeOK, NEW t \in States, StateOK(t), Untouched(t), StatusKept(t)
  PROVE  StateOK(t)'
<1>1. BoundOK(t)'
  BY Zenon DEF StateOK, BoundOK, Untouched, StatusKept
<1>2. ASSUME NEW c \in Coords
      PROVE  /\ EntryOK(t, tlb[t][c])'
             /\ \A o \in Object : <<o, c>> \in tlbMap'[t] <=> tlb'[t][c].os = o
  <2> DEFINE e == tlb[t][c]
  <2>1. EntryOK(t, e) /\ \A o \in Object : <<o, c>> \in tlbMap[t] <=> e.os = o
    BY Zenon DEF StateOK, TlbOK
  <2>2. e \in Entry /\ e = tlb'[t][c]
    BY Types, Zenon DEF Untouched
  <2>3. CASE e.os = None
    BY <2>1, <2>2, <2>3, Zenon DEF EntryOK, Untouched
  <2>4. CASE e.os # None
    <3>1. e.os \in Object /\ e.os.page \in Pages
      BY <2>2, <2>4, Zenon DEF Entry, Object
    <3>2. bound[t][e.os.page] # None /\ e.os = bound[t][e.os.page] /\ e.buf = bound[t][e.os.page].buf
      BY <2>1, <2>4, Zenon DEF EntryOK
    <3>3. AllConcrete(store'[e.buf]) <=> AllConcrete(store[e.buf])
      BY <3>1, <3>2, Zenon DEF StatusKept
    <3>4. EntryOK(t, tlb[t][c])'
      BY <2>1, <2>2, <2>4, <3>3, ZenonT(30) DEF EntryOK, Untouched, IsOwnedByUs, AllConcrete
    <3> QED BY <2>1, <3>4, Zenon DEF Untouched
  <2> QED BY <2>3, <2>4, Zenon
<1>3. CacheOK(t)'
  BY Zenon DEF StateOK, CacheOK, Untouched
<1>4. RamOK(t, ramTlb[t])'
  <2> SUFFICES ASSUME NEW r \in TlbSlots PROVE RamEntryOK(t, r, ramTlb[t][r])'
    BY Zenon DEF RamOK
  <2> DEFINE e == ramTlb[t][r]
  <2>1. RamEntryOK(t, r, e) /\ e \in RamEntry /\ e = ramTlb'[t][r]
    BY Types, Zenon DEF StateOK, RamOK, Untouched
  <2>2. CASE e.page = None
    BY <2>1, <2>2, Zenon DEF RamEntryOK
  <2>3. CASE e.page # None
    <3>1. e.page \in Pages /\ bound[t][e.page] # None /\ e.buf = bound[t][e.page].buf
      BY <2>1, <2>3, Zenon DEF RamEntryOK, RamEntry
    <3>2. AllConcrete(store'[e.buf]) <=> AllConcrete(store[e.buf])
      BY <3>1, Zenon DEF StatusKept
    <3> QED BY <2>1, <2>3, <3>2 DEF RamEntryOK, Untouched, IsOwnedByUs, AllConcrete
  <2> QED BY <2>2, <2>3, Zenon
<1> QED BY <1>1, <1>2, <1>3, <1>4, Zenon DEF StateOK, TlbOK

LEMMA OneStateStep ==
  ASSUME IInv, TypeOK', NEW s \in live, UNCHANGED <<live, cowKey>>,
         \A t \in States \ {s} : Untouched(t) /\ BuffersKept(t),
         StateOK(s)', BufferSharing'
  PROVE  IInv' /\ IsolatedStep
<1>1. \A t \in States : StateOK(t)
  BY Zenon DEF IInv
<1>2. ASSUME NEW t \in States \ {s} PROVE StateOK(t)'
  <2>1. StatusKept(t)
    BY <1>1 DEF StatusKept, BuffersKept, StateOK, BoundOK
  <2> QED BY <1>1, <2>1, KeepsState, Zenon DEF IInv
<1>3. DeadStatesHoldNothing'
  BY Zenon DEF IInv, DeadStatesHoldNothing, Untouched
<1>4. RootComesFirst'
  BY Zenon DEF IInv, RootComesFirst
<1>5. ASSUME NEW t \in States \ {s}, NEW p \in Pages PROVE Contents(t, p)' = Contents(t, p)
  BY DEF Contents, Untouched, BuffersKept
<1>6. IsolatedStep
  BY <1>5, Types, Zenon DEF IsolatedStep, IInv
<1> QED BY <1>2, <1>3, <1>4, <1>6, Zenon DEF IInv

\* Steps that change the TLBs or the memory cache of the active state only.
LEMMA TlbStep ==
  ASSUME IInv, TypeOK', UNCHANGED <<live, active, cowKey, bound, store>>,
         \A t \in States \ {active} : Untouched(t),
         TlbOK(active)', CacheOK(active)', RamOK(active, ramTlb[active])'
  PROVE  IInv' /\ IsolatedStep
<1>1. active \in live
  BY Zenon DEF IInv, TypeOK
<1>2. \A t \in States : BuffersKept(t)
  BY Zenon DEF BuffersKept
<1>3. BoundOK(active)'
  BY <1>1, Types, Zenon DEF IInv, StateOK, BoundOK
<1>4. BufferSharing'
  BY DEF IInv, BufferSharing, IsOwnedByUs
<1> QED BY <1>1, <1>2, <1>3, <1>4, OneStateStep, Zenon DEF StateOK

\* The active state and what it holds before a step.
LEMMA ActiveFacts ==
  ASSUME IInv
  PROVE  /\ active \in live /\ active \in States
         /\ TypeOK /\ BoundOK(active) /\ TlbOK(active) /\ CacheOK(active) /\ RamOK(active, ramTlb[active])
BY Types, Zenon DEF IInv, StateOK, TypeOK

LEMMA TlbFillMmioStep ==
  ASSUME IInv, NEW c \in Coords, TlbFillMmio(c)
  PROVE  IInv' /\ IsolatedStep
<1> DEFINE e == tlb[active][c]
           f == [e EXCEPT !.direct = FALSE]
<1>1. /\ tlb' = [tlb EXCEPT ![active] = [tlb[active] EXCEPT ![c] = f]]
      /\ UNCHANGED <<live, active, cowKey, bound, store, tlbMap, memcache, ramTlb>>
  BY Zenon DEF TlbFillMmio
<1>2. /\ e \in Entry /\ f \in Entry /\ ~f.direct
      /\ f.os = e.os /\ f.buf = e.buf /\ f.symb = e.symb /\ f.notOurs = e.notOurs
  <2>1. e \in Entry
    BY ActiveFacts, Types, Zenon
  <2>2. f \in Entry
    BY <2>1, Zenon DEF Entry
  <2> QED BY <2>1, <2>2, Zenon DEF Entry
<1> HIDE DEF f
<1>3. /\ tlb' \in [States -> [Coords -> Entry]] /\ tlb'[active][c] = f
      /\ \A d \in Coords \ {c} : tlb'[active][d] = tlb[active][d]
      /\ \A t \in States \ {active} : tlb'[t] = tlb[t]
  BY <1>1, <1>2, ActiveFacts, Zenon DEF TypeOK
<1>4. TypeOK'
  BY <1>1, <1>3, ActiveFacts, Zenon DEF TypeOK
<1>5. \A t \in States \ {active} : Untouched(t)
  BY <1>1, <1>3, ZenonT(30) DEF Untouched
<1>6. TlbOK(active)'
  BY <1>1, <1>2, <1>3, ActiveFacts DEF TlbOK, EntryOK, IsOwnedByUs
<1>7. CacheOK(active)' /\ RamOK(active, ramTlb[active])'
  BY <1>1, ActiveFacts, Zenon DEF CacheOK, RamOK, RamEntryOK, IsOwnedByUs
<1> QED BY <1>1, <1>4, <1>5, <1>6, <1>7, TlbStep, Zenon

LEMMA TlbFlushStep ==
  ASSUME IInv, TlbFlush
  PROVE  IInv' /\ IsolatedStep
<1>1. /\ tlb' = [tlb EXCEPT ![active] = EmptyTlb]
      /\ tlbMap' = [tlbMap EXCEPT ![active] = {}]
      /\ UNCHANGED <<live, active, cowKey, bound, store, memcache, ramTlb>>
  BY Zenon DEF TlbFlush
<1>2. EmptyTlb \in [Coords -> Entry] /\ \A c \in Coords : EmptyTlb[c].os = None /\ ~EmptyTlb[c].direct
  BY Zenon DEF EmptyTlb, EmptyEntry, Entry
<1>3. /\ tlb' \in [States -> [Coords -> Entry]] /\ tlb'[active] = EmptyTlb
      /\ tlbMap' \in [States -> SUBSET (Object \X Coords)] /\ tlbMap'[active] = {}
      /\ \A t \in States \ {active} : tlb'[t] = tlb[t] /\ tlbMap'[t] = tlbMap[t]
  BY <1>1, <1>2, ActiveFacts, Zenon DEF TypeOK
<1>4. TypeOK'
  BY <1>1, <1>3, ActiveFacts, Zenon DEF TypeOK
<1>5. \A t \in States \ {active} : Untouched(t)
  BY <1>1, <1>3, Zenon DEF Untouched
<1>6. TlbOK(active)'
  BY <1>1, <1>2, <1>3, TlbAssumption DEF TlbOK, EntryOK
<1>7. CacheOK(active)' /\ RamOK(active, ramTlb[active])'
  BY <1>1, ActiveFacts, Zenon DEF CacheOK, RamOK, RamEntryOK, IsOwnedByUs
<1> QED BY <1>1, <1>4, <1>5, <1>6, <1>7, TlbStep, Zenon

LEMMA TlbFlushPageStep ==
  ASSUME IInv, NEW hit \in SUBSET Coords, TlbFlushPage(hit)
  PROVE  IInv' /\ IsolatedStep
<1> DEFINE flushed == [c \in Coords |-> IF c \in hit THEN EmptyEntry ELSE tlb[active][c]]
           left == tlbMap[active] \ {<<tlb[active][c].os, c>> : c \in hit}
<1>1. /\ tlb' = [tlb EXCEPT ![active] = flushed]
      /\ tlbMap' = [tlbMap EXCEPT ![active] = left]
      /\ UNCHANGED <<live, active, cowKey, bound, store, memcache, ramTlb>>
  BY Zenon DEF TlbFlushPage
<1>2. EmptyEntry \in Entry /\ EmptyEntry.os = None /\ ~EmptyEntry.direct
  BY Zenon DEF EmptyEntry, Entry
<1>3. /\ flushed \in [Coords -> Entry] /\ left \in SUBSET (Object \X Coords)
      /\ \A c \in hit : flushed[c] = EmptyEntry
      /\ \A c \in Coords \ hit : flushed[c] = tlb[active][c]
  BY <1>2, ActiveFacts, Types, Zenon
<1>4. \A c \in Coords, o \in Object : <<o, c>> \in left <=> <<o, c>> \in tlbMap[active] /\ c \notin hit
  BY ActiveFacts, Zenon DEF TlbOK
<1> HIDE DEF flushed, left
<1>5. /\ tlb' \in [States -> [Coords -> Entry]] /\ tlb'[active] = flushed
      /\ tlbMap' \in [States -> SUBSET (Object \X Coords)] /\ tlbMap'[active] = left
      /\ \A t \in States \ {active} : tlb'[t] = tlb[t] /\ tlbMap'[t] = tlbMap[t]
  BY <1>1, <1>3, ActiveFacts, Zenon DEF TypeOK
<1>6. TypeOK'
  BY <1>1, <1>5, ActiveFacts, Zenon DEF TypeOK
<1>7. \A t \in States \ {active} : Untouched(t)
  BY <1>1, <1>5, Zenon DEF Untouched
<1>8. TlbOK(active)'
  BY <1>1, <1>2, <1>3, <1>4, <1>5, TlbAssumption, ActiveFacts DEF TlbOK, EntryOK, IsOwnedByUs
<1>9. CacheOK(active)' /\ RamOK(active, ramTlb[active])'
  BY <1>1, ActiveFacts, Zenon DEF CacheOK, RamOK, RamEntryOK, IsOwnedByUs
<1> QED BY <1>1, <1>6, <1>7, <1>8, <1>9, TlbStep, Zenon

LEMMA EmptyRamEntry ==
  /\ NoRamEntry \in RamEntry /\ NoRamEntry.page = None /\ NoRamEntry.os = None
  /\ \A s, r : RamEntryOK(s, r, NoRamEntry)
BY Zenon DEF NoRamEntry, RamEntry, RamEntryOK

LEMMA TlbFillStep ==
  ASSUME IInv, NEW c \in Coords, NEW p \in Pages, TlbFill(c, p)
  PROVE  IInv' /\ IsolatedStep
<1> DEFINE old == tlb[active][c].os
           n == bound[active][p]
           e == [direct |-> TRUE, os |-> n, buf |-> n.buf,
                 symb |-> ~AllConcrete(store[n.buf]), notOurs |-> ~IsOwnedByUs(active, n)]
           refs == (tlbMap[active] \ {<<old, c>>}) \cup {<<n, c>>}
           ram == [ramTlb[active] EXCEPT ![RamIndex[p]] = NoRamEntry]
<1>1. (IF memcache[active][p] # None THEN memcache[active][p] ELSE bound[active][p]) = n
  BY ActiveFacts, Zenon DEF CacheOK
<1>2. n # None
  BY <1>1, Zenon DEF TlbFill
<1>3. /\ tlb' = [tlb EXCEPT ![active] = [tlb[active] EXCEPT ![c] = e]]
      /\ tlbMap' = [tlbMap EXCEPT ![active] = refs]
      /\ memcache' = [memcache EXCEPT ![active] = [memcache[active] EXCEPT ![p] = n]]
      /\ ramTlb' = [ramTlb EXCEPT ![active] = ram]
      /\ UNCHANGED <<live, active, cowKey, bound, store>>
  BY <1>1, Zenon DEF TlbFill
<1>4. n \in Object /\ n.page = p /\ n.buf \in BufIds
  BY <1>2, ActiveFacts, Types, Zenon DEF BoundOK
<1>5. /\ e \in Entry /\ e.direct /\ e.os = n /\ e.buf = n.buf
      /\ e.symb = ~AllConcrete(store[n.buf]) /\ e.notOurs = ~IsOwnedByUs(active, n)
  BY <1>4, Zenon DEF Entry, AllConcrete, IsOwnedByUs
<1>6. /\ refs \in SUBSET (Object \X Coords)
      /\ \A d \in Coords \ {c}, o \in Object : <<o, d>> \in refs <=> <<o, d>> \in tlbMap[active]
      /\ \A o \in Object : <<o, c>> \in refs <=> o = n
  BY <1>4, ActiveFacts, Types DEF TlbOK
<1>7. /\ ram \in [TlbSlots -> RamEntry]
      /\ \A r \in TlbSlots : ram[r] = NoRamEntry \/ ram[r] = ramTlb[active][r]
  BY ActiveFacts, EmptyRamEntry, TlbAssumption, Zenon DEF TypeOK
<1> HIDE DEF e, refs, ram
<1>8. /\ tlb' \in [States -> [Coords -> Entry]] /\ tlb'[active][c] = e
      /\ \A d \in Coords \ {c} : tlb'[active][d] = tlb[active][d]
      /\ \A t \in States \ {active} : tlb'[t] = tlb[t]
  BY <1>3, <1>5, ActiveFacts, Zenon DEF TypeOK
<1>9. /\ memcache' \in [States -> [Pages -> Object \cup {None}]] /\ memcache'[active][p] = n
      /\ \A q \in Pages \ {p} : memcache'[active][q] = memcache[active][q]
      /\ \A t \in States \ {active} : memcache'[t] = memcache[t]
  BY <1>3, <1>4, ActiveFacts, Zenon DEF TypeOK
<1>10. /\ tlbMap' \in [States -> SUBSET (Object \X Coords)] /\ tlbMap'[active] = refs
       /\ ramTlb' \in [States -> [TlbSlots -> RamEntry]] /\ ramTlb'[active] = ram
       /\ \A t \in States \ {active} : tlbMap'[t] = tlbMap[t] /\ ramTlb'[t] = ramTlb[t]
  BY <1>3, <1>6, <1>7, ActiveFacts, Zenon DEF TypeOK
<1>11. TypeOK'
  BY <1>3, <1>8, <1>9, <1>10, ActiveFacts, Zenon DEF TypeOK
<1>12. \A t \in States \ {active} : Untouched(t)
  BY <1>3, <1>8, <1>9, <1>10, ZenonT(30) DEF Untouched
<1>13. TlbOK(active)'
  <2>1. EntryOK(active, tlb[active][c])'
    <3>1. e.symb <=> ~AllConcrete(store'[e.buf])
      BY <1>3, <1>5, Zenon
    <3>2. e.notOurs \/ n.owner = cowKey'[active]
      BY <1>3, <1>5, Zenon DEF IsOwnedByUs
    <3> QED BY <1>2, <1>3, <1>4, <1>5, <1>8, <3>1, <3>2 DEF EntryOK, IsOwnedByUs, AllConcrete
  <2>2. \A d \in Coords \ {c} : EntryOK(active, tlb[active][d])'
    BY <1>3, <1>8, ActiveFacts DEF TlbOK, EntryOK, IsOwnedByUs, AllConcrete
  <2>3. \A o \in Object : <<o, c>> \in tlbMap'[active] <=> tlb'[active][c].os = o
    BY <1>5, <1>6, <1>8, <1>10, Zenon
  <2>4. ASSUME NEW d \in Coords \ {c}, NEW o \in Object
        PROVE  <<o, d>> \in tlbMap'[active] <=> tlb'[active][d].os = o
    <3>1. <<o, d>> \in tlbMap[active] <=> tlb[active][d].os = o
      BY ActiveFacts, Zenon DEF TlbOK
    <3> QED BY <1>6, <1>8, <1>10, <3>1, Zenon
  <2>5. active' = active
    BY <1>3, Zenon
  <2> QED BY <2>1, <2>2, <2>3, <2>4, <2>5, ZenonT(30) DEF TlbOK
<1>14. CacheOK(active)'
  BY <1>3, <1>9, ActiveFacts, ZenonT(30) DEF CacheOK
<1>15. RamOK(active, ramTlb[active])'
  BY <1>3, <1>7, <1>10, EmptyRamEntry, ActiveFacts DEF RamOK, RamEntryOK, IsOwnedByUs, AllConcrete
<1> QED BY <1>3, <1>11, <1>12, <1>13, <1>14, <1>15, TlbStep, Zenon

\* What transferRam leaves in the RAM TLB before the access.
LEMMA RamFilledFact ==
  ASSUME IInv, NEW p \in Pages, NEW i \in Offsets, bound[active][p] # None
  PROVE  /\ RamFilled(active, p, i, ramTlb[active]) \in [TlbSlots -> RamEntry]
         /\ RamOK(active, RamFilled(active, p, i, ramTlb[active]))
<1> DEFINE o == bound[active][p]
           ram == ramTlb[active]
           e == [page |-> p, notOurs |-> ~IsOwnedByUs(active, o), os |-> o, buf |-> o.buf]
<1>1. o \in Object /\ o.page = p /\ o.buf \in BufIds /\ ram \in [TlbSlots -> RamEntry] /\ RamIndex[p] \in TlbSlots
  BY ActiveFacts, Types, TlbAssumption, Zenon DEF BoundOK, TypeOK
<1>2. /\ e \in RamEntry /\ e.page = p /\ e.os = o /\ e.buf = o.buf
      /\ e.notOurs = ~IsOwnedByUs(active, o)
  BY <1>1, Zenon DEF RamEntry, IsOwnedByUs
<1> HIDE DEF e
<1>3. CASE ~AllConcrete(store[o.buf])
  BY <1>1, <1>3, ActiveFacts, Zenon DEF RamFilled
<1>4. CASE AllConcrete(store[o.buf])
  <2>1. RamFilled(active, p, i, ram)
          = [ram EXCEPT ![RamIndex[p]] = IF o.split /\ i # 0 THEN NoRamEntry ELSE e]
    BY <1>4, Zenon DEF RamFilled, e
  <2>2. RamEntryOK(active, RamIndex[p], e)
    BY <1>1, <1>2, <1>4, Types, ActiveFacts, Zenon DEF RamEntryOK
  <2>3. \A r \in TlbSlots : RamEntryOK(active, r, ram[r])
    BY ActiveFacts, Zenon DEF RamOK
  <2> QED BY <1>1, <1>2, <2>1, <2>2, <2>3, EmptyRamEntry DEF RamOK
<1> QED BY <1>3, <1>4, Zenon

LEMMA TransferRamReadStep ==
  ASSUME IInv, NEW p \in Pages, NEW i \in Offsets, TransferRamRead(p, i)
  PROVE  IInv' /\ IsolatedStep
<1> DEFINE ram == RamFilled(active, p, i, ramTlb[active])
<1>1. /\ bound[active][p] # None /\ ramTlb' = [ramTlb EXCEPT ![active] = ram]
      /\ UNCHANGED <<live, active, cowKey, bound, store, tlb, tlbMap, memcache>>
  BY Zenon DEF TransferRamRead
<1>2. ram \in [TlbSlots -> RamEntry] /\ RamOK(active, ram)
  BY <1>1, RamFilledFact, Zenon
<1> HIDE DEF ram
<1>3. /\ ramTlb' \in [States -> [TlbSlots -> RamEntry]] /\ ramTlb'[active] = ram
      /\ \A t \in States \ {active} : ramTlb'[t] = ramTlb[t]
  BY <1>1, <1>2, ActiveFacts, Zenon DEF TypeOK
<1>4. TypeOK'
  BY <1>1, <1>3, ActiveFacts, Zenon DEF TypeOK
<1>5. \A t \in States \ {active} : Untouched(t)
  BY <1>1, <1>3, ZenonT(30) DEF Untouched
<1>6. TlbOK(active)' /\ CacheOK(active)'
  BY <1>1, ActiveFacts DEF TlbOK, EntryOK, CacheOK, IsOwnedByUs, AllConcrete
<1>7. RamOK(active, ramTlb[active])'
  BY <1>1, <1>2, <1>3 DEF RamOK, RamEntryOK, IsOwnedByUs, AllConcrete
<1> QED BY <1>1, <1>4, <1>5, <1>6, <1>7, TlbStep, Zenon

-------------------------------------------------------------------------------
(***************************************************************************)
(* Stores that go around the address space.                                *)
(***************************************************************************)
LEMMA PrivateStore ==
  ASSUME IInv, NEW p \in Pages, NEW i \in Offsets, NEW v \in Values \ {Symbolic},
         bound[active][p] # None, IsOwnedByUs(active, bound[active][p]),
         store' = [store EXCEPT ![bound[active][p].buf] =
                     StoredDirectly(store[bound[active][p].buf], i, v)],
         UNCHANGED <<live, active, cowKey, bound, tlb, tlbMap, memcache, ramTlb>>
  PROVE  IInv' /\ IsolatedStep
<1> DEFINE b == bound[active][p].buf
           after == StoredDirectly(store[b], i, v)
<1>1. b \in BufIds /\ store[b] \in [Offsets -> Values]
  BY ActiveFacts, Types, ZenonT(30) DEF BoundOK
<1>2. after \in [Offsets -> Values] /\ (AllConcrete(after) <=> AllConcrete(store[b]))
  BY <1>1, Zenon DEF StoredDirectly, AllConcrete
<1> HIDE DEF after
<1>3. /\ store' \in [BufIds -> [Offsets -> Values] \cup {Freed}]
      /\ store'[b] = after /\ \A a \in BufIds \ {b} : store'[a] = store[a]
  BY <1>1, <1>2, ActiveFacts, Zenon DEF TypeOK, after
<1>4. TypeOK'
  BY <1>3, ActiveFacts, Zenon DEF TypeOK
<1>5. \A t \in States \ {active} : Untouched(t) /\ BuffersKept(t)
  <2>1. \A t \in States : Untouched(t)
    BY Zenon DEF Untouched
  <2>2. ASSUME NEW t \in States \ {active}, NEW q \in Pages, bound[t][q] # None
        PROVE  bound[t][q].buf \in BufIds \ {b}
    BY <2>2, ActiveFacts, Types DEF IInv, BufferSharing
  <2> QED BY <1>3, <2>1, <2>2, Zenon DEF BuffersKept
<1>6. StatusKept(active)
  <2> SUFFICES ASSUME NEW q \in Pages, bound[active][q] # None
               PROVE  /\ store'[bound[active][q].buf] # Freed
                      /\ AllConcrete(store'[bound[active][q].buf])
                           <=> AllConcrete(store[bound[active][q].buf])
    BY Zenon DEF StatusKept
  <2>1. bound[active][q].buf \in BufIds /\ store[bound[active][q].buf] # Freed
    BY ActiveFacts, Types, ZenonT(30) DEF BoundOK
  <2>2. CASE bound[active][q].buf = b
    BY <1>2, <1>3, <2>2, TlbAssumption, Zenon
  <2>3. CASE bound[active][q].buf # b
    BY <1>3, <2>1, <2>3, Zenon
  <2> QED BY <2>2, <2>3, Zenon
<1>7. StateOK(active)'
  BY <1>6, ActiveFacts, KeepsState, Zenon DEF Untouched, IInv
<1>8. BufferSharing'
  BY DEF IInv, BufferSharing, IsOwnedByUs
<1> QED BY <1>4, <1>5, <1>7, <1>8, ActiveFacts, OneStateStep, Zenon

LEMMA FastWriteStep ==
  ASSUME IInv, NEW c \in Coords, NEW i \in Offsets, NEW v \in Values \ {Symbolic},
         FastWrite(c, i, v)
  PROVE  IInv' /\ IsolatedStep
<1> DEFINE e == tlb[active][c]
<1>1. /\ e.direct /\ ~e.notOurs
      /\ store' = [store EXCEPT ![e.buf] = StoredDirectly(store[e.buf], i, v)]
      /\ UNCHANGED <<live, active, cowKey, bound, tlb, tlbMap, memcache, ramTlb>>
  BY Zenon DEF FastWrite
<1>2. /\ e.os # None /\ e.os = bound[active][e.os.page] /\ e.buf = e.os.buf
      /\ IsOwnedByUs(active, e.os)
  BY <1>1, ActiveFacts, Zenon DEF TlbOK, EntryOK
<1>3. e.os.page \in Pages
  BY <1>2, ActiveFacts, Types, ZenonT(30) DEF Entry
<1> QED BY <1>1, <1>2, <1>3, PrivateStore, Zenon

LEMMA RamWriteStep ==
  ASSUME IInv, NEW p \in Pages, NEW i \in Offsets, NEW v \in Values \ {Symbolic},
         RamWrite(p, i, v)
  PROVE  IInv' /\ IsolatedStep
<1> DEFINE e == ramTlb[active][RamIndex[p]]
<1>1. /\ e.page = p /\ ~e.notOurs
      /\ store' = [store EXCEPT ![e.buf] = StoredDirectly(store[e.buf], i, v)]
      /\ UNCHANGED <<live, active, cowKey, bound, tlb, tlbMap, memcache, ramTlb>>
  BY Zenon DEF RamWrite
<1>2. RamEntryOK(active, RamIndex[p], e) /\ p # None
  BY ActiveFacts, TlbAssumption, Zenon DEF RamOK
<1>3. bound[active][p] # None /\ e.buf = bound[active][p].buf /\ IsOwnedByUs(active, bound[active][p])
  BY <1>1, <1>2, Zenon DEF RamEntryOK
<1> QED BY <1>1, <1>3, PrivateStore, Zenon

\* A buffer that is not allocated backs no page.
LEMMA FreeIsUnused ==
  ASSUME IInv, NEW b \in BufIds, store[b] = Freed
  PROVE  \A s \in States, p \in Pages : bound[s][p] # None => bound[s][p].buf \in BufIds \ {b}
BY Types DEF IInv, StateOK, BoundOK

LEMMA RegisterRamStep ==
  ASSUME IInv, NEW p \in Pages, NEW b \in BufIds, RegisterRam(p, b)
  PROVE  IInv' /\ IsolatedStep
<1> DEFINE o == [page |-> p, split |-> FALSE, owner |-> 1, buf |-> b]
           zeros == [i \in Offsets |-> Zero]
<1>1. /\ cowKey[Root] = 1 /\ bound[Root][p] = None /\ store[b] = Freed
      /\ bound' = [bound EXCEPT ![Root] = [bound[Root] EXCEPT ![p] = o]]
      /\ store' = [store EXCEPT ![b] = zeros]
      /\ UNCHANGED <<live, active, cowKey, tlb, tlbMap, memcache, ramTlb>>
  BY Zenon DEF RegisterRam, FirstFree
<1>2. active = Root /\ Root \in live /\ Root \in States
  BY <1>1, ActiveFacts, Zenon DEF IInv, RootComesFirst
<1>3. o \in Object /\ o.page = p /\ o.owner = 1 /\ o.buf = b /\ o # None /\ zeros \in [Offsets -> Values]
  <2>1. o \in Object /\ o.page = p /\ o.owner = 1 /\ o.buf = b
    BY Zenon DEF Object
  <2>2. o # None
    BY <2>1, TlbAssumption, Zenon
  <2> QED BY <2>1, <2>2, TlbAssumption, Zenon
<1> HIDE DEF o, zeros
<1>4. /\ bound' \in [States -> [Pages -> Object \cup {None}]] /\ bound'[Root][p] = o
      /\ \A q \in Pages \ {p} : bound'[Root][q] = bound[Root][q]
      /\ \A t \in States \ {Root} : bound'[t] = bound[t]
  BY <1>1, <1>2, <1>3, ActiveFacts, Zenon DEF TypeOK
<1>5. /\ store' \in [BufIds -> [Offsets -> Values] \cup {Freed}] /\ store'[b] = zeros
      /\ \A a \in BufIds \ {b} : store'[a] = store[a]
  BY <1>1, <1>3, ActiveFacts, Zenon DEF TypeOK
<1>6. TypeOK'
  BY <1>1, <1>4, <1>5, ActiveFacts, Zenon DEF TypeOK
<1>7. \A t \in States, q \in Pages : bound[t][q] # None => bound[t][q].buf \in BufIds \ {b}
  BY <1>1, FreeIsUnused, Zenon
<1>8. \A t \in States \ {Root} : Untouched(t) /\ BuffersKept(t)
  BY <1>1, <1>4, <1>5, <1>7, ZenonT(30) DEF Untouched, BuffersKept
<1>9. BoundOK(Root)'
  BY <1>1, <1>2, <1>3, <1>4, <1>5, <1>7, TlbAssumption, ActiveFacts DEF BoundOK
<1>10. TlbOK(Root)'
  <2> SUFFICES ASSUME NEW c \in Coords PROVE EntryOK(Root, tlb[Root][c])'
    BY <1>1, <1>2, ActiveFacts, Zenon DEF TlbOK
  <2> DEFINE e == tlb[Root][c]
  <2>1. EntryOK(Root, e) /\ e \in Entry
    BY <1>2, ActiveFacts, Types, Zenon DEF TlbOK
  <2>2. CASE e.os = None
    BY <1>1, <2>1, <2>2, Zenon DEF EntryOK
  <2>3. CASE e.os # None
    <3>1. e.os \in Object /\ e.os.page \in Pages /\ bound[Root][e.os.page] = e.os
      BY <2>1, <2>3, ActiveFacts, Types, Zenon DEF EntryOK, Entry
    <3>2. e.os.page # p /\ e.os.buf \in BufIds \ {b}
      BY <1>1, <1>2, <1>7, <2>3, <3>1, Zenon
    <3>3. bound'[Root][e.os.page] = e.os /\ store'[e.os.buf] = store[e.os.buf]
      BY <1>4, <1>5, <3>1, <3>2, Zenon
    <3> QED BY <1>1, <2>1, <2>3, <3>3, Zenon DEF EntryOK, IsOwnedByUs, AllConcrete
  <2> QED BY <2>2, <2>3, Zenon
<1>11. CacheOK(Root)'
  BY <1>1, <1>2, <1>4, ActiveFacts DEF CacheOK
<1>12. RamOK(Root, ramTlb[Root])'
  <2> SUFFICES ASSUME NEW r \in TlbSlots PROVE RamEntryOK(Root, r, ramTlb[Root][r])'
    BY Zenon DEF RamOK
  <2> DEFINE e == ramTlb[Root][r]
  <2>1. RamEntryOK(Root, r, e) /\ e \in RamEntry
    BY <1>2, ActiveFacts, Types, Zenon DEF RamOK
  <2>2. CASE e.page = None
    BY <1>1, <2>1, <2>2, ZenonT(30) DEF RamEntryOK
  <2>3. CASE e.page # None
    <3>1. e.page \in Pages /\ bound[Root][e.page] # None /\ e.buf = bound[Root][e.page].buf
      BY <2>1, <2>3, Zenon DEF RamEntryOK, RamEntry
    <3>2. bound'[Root][e.page] = bound[Root][e.page] /\ store'[e.buf] = store[e.buf]
      <4>1. e.page # p
        BY <1>1, <3>1, Zenon
      <4>2. e.buf \in BufIds \ {b}
        BY <1>2, <1>7, <3>1, Zenon
      <4> QED BY <1>4, <1>5, <3>1, <4>1, <4>2, Zenon
    <3> QED BY <1>1, <2>1, <2>3, <3>2, ZenonT(30) DEF RamEntryOK, IsOwnedByUs, AllConcrete
  <2> QED BY <2>2, <2>3, Zenon
<1>13. BufferSharing'
  <2> SUFFICES ASSUME NEW s \in States, NEW t \in States, NEW q \in Pages, NEW q2 \in Pages,
                      bound'[s][q] # None, bound'[t][q2] # None, bound'[s][q].buf = bound'[t][q2].buf
               PROVE  q = q2 /\ (IsOwnedByUs(s, bound[s][q])' => s = t)
    BY Zenon DEF BufferSharing
  <2>1. CASE (s = Root /\ q = p) \/ (t = Root /\ q2 = p)
    BY <1>3, <1>4, <1>7, <2>1
  <2>2. CASE ~(s = Root /\ q = p) /\ ~(t = Root /\ q2 = p)
    <3>1. bound'[s][q] = bound[s][q] /\ bound'[t][q2] = bound[t][q2]
      BY <1>4, <2>2, Zenon
    <3> QED BY <1>1, <3>1 DEF IInv, BufferSharing, IsOwnedByUs
  <2> QED BY <2>1, <2>2, Zenon
<1> QED BY <1>1, <1>2, <1>6, <1>8, <1>9, <1>10, <1>11, <1>12, <1>13, OneStateStep, Zenon DEF StateOK

-------------------------------------------------------------------------------
(***************************************************************************)
(* Writes through the address space and splits put an object that the      *)
(* state owns in the place of the one at a page.                           *)
(***************************************************************************)
\* Object n, with the contents bytes, replaces o at page p of state s.  Nothing else
\* uses its buffer, and the entries follow.
Replaced(s, p, n, bytes) ==
  LET o == bound[s][p]
  IN  /\ n \in Object /\ n.page = p /\ IsOwnedByUs(s, n) /\ bytes \in [Offsets -> Values]
      /\ bound'[s][p] = n /\ store'[n.buf] = bytes
      /\ \A q \in Pages \ {p} : bound'[s][q] = bound[s][q]
      /\ \A t \in States, q \in Pages : (t # s \/ q # p) /\ bound[t][q] # None =>
           bound[t][q].buf # n.buf /\ store'[bound[t][q].buf] = store[bound[t][q].buf]
      /\ \A c \in Coords :
           IF tlb[s][c].os = o
           THEN /\ tlb'[s][c].os = n /\ tlb'[s][c].buf = n.buf
                /\ tlb'[s][c].symb <=> ~AllConcrete(bytes)
           ELSE tlb'[s][c] = tlb[s][c]
      /\ \A c \in Coords, x \in Object : <<x, c>> \in tlbMap'[s] <=> tlb'[s][c].os = x
      /\ memcache'[s][p] \in {None, n}
      /\ \A q \in Pages \ {p} : memcache'[s][q] = memcache[s][q]

\* An entry of the RAM TLB once n is at page p.
RamFollows(s, p, n, r, e) ==
  \/ e.page = None /\ e.os = None
  \/ e.page # p /\ RamEntryOK(s, r, e)
  \/ e.page = p /\ RamIndex[p] = r /\ e.buf = n.buf /\ ~e.notOurs /\ e.os # None /\ e.os.page = p

LEMMA ReplacedStep ==
  ASSUME IInv, TypeOK', NEW s \in live, NEW p \in Pages, NEW n, NEW bytes,
         bound[s][p] # None, UNCHANGED <<live, cowKey>>,
         \A t \in States \ {s} : Untouched(t),
         Replaced(s, p, n, bytes),
         \A r \in TlbSlots : RamFollows(s, p, n, r, ramTlb'[s][r])
  PROVE  IInv' /\ IsolatedStep
<1> DEFINE o == bound[s][p]
<1>1. s \in States /\ BoundOK(s) /\ TlbOK(s) /\ CacheOK(s) /\ TypeOK
  BY Zenon DEF IInv, StateOK, TypeOK
<1>2. n # None /\ o \in Object /\ o.page = p
  BY <1>1, Types DEF Replaced, BoundOK
<1>3. /\ \A q \in Pages \ {p} : bound'[s][q] = bound[s][q]
      /\ \A t \in States, q \in Pages : (t # s \/ q # p) /\ bound[t][q] # None =>
           bound[t][q].buf # n.buf /\ store'[bound[t][q].buf] = store[bound[t][q].buf]
  BY Zenon DEF Replaced
<1>4. BoundOK(s)'
  <2> SUFFICES ASSUME NEW q \in Pages, bound'[s][q] # None
               PROVE  /\ bound'[s][q].page = q
                      /\ bound'[s][q].owner <= cowKey[s]
                      /\ store'[bound'[s][q].buf] # Freed
    BY DEF BoundOK
  <2>1. CASE q = p
    <3>1. /\ bound'[s][q] = n /\ n.page = q /\ n.owner = cowKey[s]
          /\ store'[n.buf] \in [Offsets -> Values]
      BY <2>1, Zenon DEF Replaced, IsOwnedByUs
    <3> QED BY <1>1, <3>1, Types, TlbAssumption
  <2>2. CASE q # p
    <3>1. bound'[s][q] = bound[s][q] /\ store'[bound[s][q].buf] = store[bound[s][q].buf]
      BY <1>1, <1>3, <2>2, Zenon
    <3> QED BY <1>1, <3>1, Zenon DEF BoundOK
  <2> QED BY <2>1, <2>2, Zenon
<1>5. TlbOK(s)'
  <2>1. ASSUME NEW c \in Coords, tlb[s][c].os = o PROVE EntryOK(s, tlb[s][c])'
    <3>1. /\ tlb'[s][c].os = n /\ tlb'[s][c].buf = n.buf
          /\ tlb'[s][c].symb <=> ~AllConcrete(bytes)
      BY <2>1, Zenon DEF Replaced
    <3>2. n.page = p /\ bound'[s][p] = n /\ store'[n.buf] = bytes /\ n.owner = cowKey'[s]
      BY Zenon DEF Replaced, IsOwnedByUs
    <3> QED BY <1>2, <3>1, <3>2, Zenon DEF EntryOK, IsOwnedByUs, AllConcrete
  <2>2. ASSUME NEW c \in Coords, tlb[s][c].os # o PROVE EntryOK(s, tlb[s][c])'
    <3> DEFINE e == tlb[s][c]
    <3>1. EntryOK(s, e) /\ e \in Entry /\ tlb'[s][c] = e
      BY <1>1, <2>2, Types, Zenon DEF TlbOK, Replaced
    <3>2. CASE e.os = None
      BY <3>1, <3>2, Zenon DEF EntryOK
    <3>3. CASE e.os # None
      <4>1. e.os.page \in Pages /\ e.os = bound[s][e.os.page] /\ e.buf = e.os.buf
        BY <1>1, <3>1, <3>3, Types, Zenon DEF EntryOK, Entry
      <4>2. e.os.page # p
        BY <2>2, <4>1, Zenon
      <4>3. bound'[s][e.os.page] = e.os /\ store'[e.buf] = store[e.buf]
        <5>1. bound'[s][e.os.page] = bound[s][e.os.page]
          BY <1>3, <4>1, <4>2, Zenon
        <5>2. store'[bound[s][e.os.page].buf] = store[bound[s][e.os.page].buf]
          BY <1>1, <1>3, <3>3, <4>1, <4>2, ZenonT(30)
        <5> HIDE DEF e
        <5> QED BY <4>1, <5>1, <5>2, Zenon
      <4> QED BY <3>1, <3>3, <4>3, Zenon DEF EntryOK, IsOwnedByUs, AllConcrete
    <3> QED BY <3>2, <3>3, Zenon
  <2> QED BY <2>1, <2>2, Zenon DEF TlbOK, Replaced
<1>6. CacheOK(s)'
  BY <1>1, <1>2 DEF CacheOK, Replaced
<1>7. RamOK(s, ramTlb[s])'
  <2> SUFFICES ASSUME NEW r \in TlbSlots PROVE RamEntryOK(s, r, ramTlb[s][r])'
    BY Zenon DEF RamOK
  <2> DEFINE e == ramTlb'[s][r]
  <2>1. RamFollows(s, p, n, r, e) /\ e \in RamEntry
    BY <1>1 DEF TypeOK
  <2>2. CASE e.page = None
    BY <2>1, <2>2, Types, <1>1, Zenon DEF RamEntryOK, RamFollows
  <2>3. CASE e.page # None /\ e.page # p
    <3>1. RamEntryOK(s, r, e) /\ e.page \in Pages
      BY <2>1, <2>3, Zenon DEF RamFollows, RamEntry
    <3>2. bound'[s][e.page] = bound[s][e.page] /\ store'[e.buf] = store[e.buf]
      <4>1. bound[s][e.page] # None /\ e.buf = bound[s][e.page].buf
        BY <2>3, <3>1, Zenon DEF RamEntryOK
      <4> QED BY <1>1, <1>3, <2>3, <3>1, <4>1, ZenonT(30)
    <3> QED BY <2>3, <3>1, <3>2, ZenonT(30) DEF RamEntryOK, IsOwnedByUs, AllConcrete
  <2>4. CASE e.page = p
    <3>1. e.page # None
      BY <2>4, TlbAssumption, Zenon
    <3>2. RamIndex[p] = r /\ e.buf = n.buf /\ ~e.notOurs /\ e.os # None /\ e.os.page = p
      BY <2>1, <2>4, <3>1, Zenon DEF RamFollows
    <3>3. bound'[s][p] = n /\ n.owner = cowKey'[s]
      BY Zenon DEF Replaced, IsOwnedByUs
    <3> QED BY <1>2, <2>4, <3>1, <3>2, <3>3, Zenon DEF RamEntryOK, IsOwnedByUs
  <2> QED BY <2>2, <2>3, <2>4, Zenon
<1>8. BufferSharing'
  <2> SUFFICES ASSUME NEW u \in States, NEW t \in States, NEW q \in Pages, NEW q2 \in Pages,
                      bound'[u][q] # None, bound'[t][q2] # None, bound'[u][q].buf = bound'[t][q2].buf
               PROVE  q = q2 /\ (IsOwnedByUs(u, bound[u][q])' => u = t)
    BY DEF BufferSharing
  <2>1. \A x \in States, y \in Pages : (x # s \/ y # p) => bound'[x][y] = bound[x][y]
    BY DEF Replaced, Untouched
  <2>2. CASE (u = s /\ q = p) \/ (t = s /\ q2 = p)
    BY <1>3, <2>1, <2>2 DEF Replaced
  <2>3. CASE ~(u = s /\ q = p) /\ ~(t = s /\ q2 = p)
    <3>1. bound'[u][q] = bound[u][q] /\ bound'[t][q2] = bound[t][q2]
      BY <2>1, <2>3, Zenon
    <3> QED BY <3>1 DEF IInv, BufferSharing, IsOwnedByUs
  <2> QED BY <2>2, <2>3, Zenon
<1>9. \A t \in States \ {s} : BuffersKept(t)
  BY <1>3, Zenon DEF BuffersKept
<1> QED BY <1>4, <1>5, <1>6, <1>7, <1>8, <1>9, OneStateStep, Zenon DEF StateOK

\* Collect keeps the buffers in use.
LEMMA Collected ==
  ASSUME NEW st \in [BufIds -> [Offsets -> Values] \cup {Freed}], Collect(st)
  PROVE  /\ store' \in [BufIds -> [Offsets -> Values] \cup {Freed}]
         /\ \A t \in States, q \in Pages :
              bound'[t][q] # None /\ bound'[t][q].buf \in BufIds =>
                store'[bound'[t][q].buf] = st[bound'[t][q].buf]
BY Zenon DEF Collect

\* new has the entries of o changed to n, with the contents bytes.
EntriesFollow(s, o, n, bytes, new) ==
  /\ new \in [Coords -> Entry]
  /\ \A c \in Coords :
       IF tlb[s][c].os = o
       THEN new[c].os = n /\ new[c].buf = n.buf /\ (new[c].symb <=> ~AllConcrete(bytes))
       ELSE new[c] = tlb[s][c]

\* An entry is listed under the object it points to, so updateTlb reaches exactly
\* the entries of o.
LEMMA EntriesFact ==
  ASSUME IInv, NEW s \in States, NEW o \in Object, NEW n \in Object, NEW bytes
  PROVE  /\ EntriesFollow(s, o, n, bytes, EntriesUpdated(s, o, n, bytes, TRUE))
         /\ EntriesFollow(s, o, n, bytes, EntriesUpdated(s, o, n, bytes, FALSE))
<1> DEFINE f(c, owned) == [tlb[s][c] EXCEPT !.os = n, !.buf = n.buf, !.symb = ~AllConcrete(bytes),
                                            !.notOurs = tlb[s][c].notOurs /\ ~owned]
           new(owned) == [c \in Coords |-> IF c \notin Refs(s, o) THEN tlb[s][c] ELSE f(c, owned)]
<1>1. \A c \in Coords : c \in Refs(s, o) <=> tlb[s][c].os = o
  BY Zenon DEF Refs, IInv, StateOK, TlbOK
<1>2. /\ EntriesUpdated(s, o, n, bytes, TRUE) = new(TRUE)
      /\ EntriesUpdated(s, o, n, bytes, FALSE) = new(FALSE)
  BY Zenon DEF EntriesUpdated
<1>3. ASSUME NEW owned \in BOOLEAN PROVE EntriesFollow(s, o, n, bytes, new(owned))
  <2>1. ASSUME NEW c \in Coords
        PROVE  /\ tlb[s][c] \in Entry /\ f(c, owned) \in Entry
               /\ f(c, owned).os = n /\ f(c, owned).buf = n.buf
               /\ f(c, owned).symb <=> ~AllConcrete(bytes)
    <3>1. tlb[s][c] \in Entry
      BY Types, Zenon DEF IInv
    <3>2. n.buf \in BufIds /\ (~AllConcrete(bytes)) \in BOOLEAN
      BY Zenon DEF Object, AllConcrete
    <3>3. (tlb[s][c].notOurs /\ ~owned) \in BOOLEAN
      OBVIOUS
    <3>4. f(c, owned) \in Entry
      BY <3>1, <3>2, <3>3, Zenon DEF Entry
    <3>5. f(c, owned).os = n /\ f(c, owned).buf = n.buf /\ f(c, owned).symb = ~AllConcrete(bytes)
      BY <3>1, Zenon DEF Entry
    <3> QED BY <3>1, <3>4, <3>5, Zenon
  <2> HIDE DEF f
  <2>2. new(owned) \in [Coords -> Entry]
    BY <2>1, Zenon
  <2> QED BY <1>1, <2>1, <2>2, Zenon DEF EntriesFollow
<1> HIDE DEF new
<1> QED BY <1>2, <1>3, Zenon

LEMMA RefsFact ==
  ASSUME IInv, NEW s \in States, NEW p \in Pages, bound[s][p] # None,
         NEW n \in Object, n.page = p
  PROVE  LET o == bound[s][p]
             new == RefsMoved(s, o, n)
         IN  /\ new \subseteq Object \X Coords
             /\ \A c \in Coords, x \in Object :
                  <<x, c>> \in new <=> IF tlb[s][c].os = o THEN x = n ELSE tlb[s][c].os = x
<1> DEFINE o == bound[s][p]
           new == RefsMoved(s, o, n)
<1>1. o \in Object /\ tlbMap[s] \subseteq Object \X Coords /\ n # None
  BY Types, Zenon DEF IInv
<1>2. \A c \in Coords, x \in Object : <<x, c>> \in tlbMap[s] <=> tlb[s][c].os = x
  BY Zenon DEF IInv, StateOK, TlbOK
<1>3. \A c \in Coords : c \in Refs(s, o) <=> tlb[s][c].os = o
  BY <1>1, <1>2, ZenonT(30) DEF Refs
<1>4. \A c \in Coords : tlb[s][c].os = n => n = o
  BY <1>1 DEF IInv, StateOK, TlbOK, EntryOK
<1>5. CASE Refs(s, o) = {}
  BY <1>1, <1>2, <1>3, <1>5, Zenon DEF RefsMoved
<1>6. CASE Refs(s, o) # {}
  <2>1. new = {r \in tlbMap[s] : r[1] \notin {o, n}} \cup ({n} \X Refs(s, o))
    BY <1>6, Zenon DEF RefsMoved
  <2>2. Refs(s, o) \subseteq Coords
    BY Zenon DEF Refs
  <2> HIDE DEF new
  <2>3. new \subseteq Object \X Coords
    BY <1>1, <2>1, <2>2, Zenon
  <2>4. ASSUME NEW c \in Coords, NEW x \in Object
        PROVE  <<x, c>> \in new <=> IF tlb[s][c].os = o THEN x = n ELSE tlb[s][c].os = x
    <3>1. <<x, c>> \in new <=> (tlb[s][c].os = x /\ x \notin {o, n}) \/ (x = n /\ tlb[s][c].os = o)
      BY <1>2, <1>3, <2>1, Zenon
    <3> QED BY <1>4, <3>1, Zenon
  <2> QED BY <2>3, <2>4, Zenon DEF new
<1> QED BY <1>5, <1>6, Zenon

LEMMA RamDroppedFact ==
  ASSUME IInv, NEW s \in States, NEW o \in Object, NEW ram \in [TlbSlots -> RamEntry]
  PROVE  /\ RamDropped(s, o, ram) \in [TlbSlots -> RamEntry]
         /\ \A r \in TlbSlots : RamDropped(s, o, ram)[r] \in {ram[r], NoRamEntry}
<1>1. RamIndex[o.page] \in TlbSlots
  BY TlbAssumption, Zenon DEF Object
<1> QED BY <1>1, EmptyRamEntry, Zenon DEF RamDropped

\* In place: the entry for the page may be written and has its buffer.
LEMMA RamInPlace ==
  ASSUME NEW s, NEW p \in Pages, NEW n, NEW r, NEW e,
         bound[s][p] # None, IsOwnedByUs(s, bound[s][p]), n.buf = bound[s][p].buf,
         RamEntryOK(s, r, e) \/ e = NoRamEntry
  PROVE  RamFollows(s, p, n, r, e)
<1>1. CASE e = NoRamEntry
  BY <1>1, EmptyRamEntry, Zenon DEF RamFollows
<1>2. CASE RamEntryOK(s, r, e) /\ e.page # p
  BY <1>2, Zenon DEF RamFollows
<1>3. CASE RamEntryOK(s, r, e) /\ e.page = p
  <2>1. e.page # None
    BY <1>3, TlbAssumption, Zenon
  <2> QED BY <1>3, <2>1, Zenon DEF RamFollows, RamEntryOK
<1> QED BY <1>1, <1>2, <1>3, Zenon

\* A copy: updateRamTlb replaces the entry of a page that is not owned, which is
\* there only if the page is concrete.
LEMMA RamCopied ==
  ASSUME IInv, NEW s \in States, NEW p \in Pages, NEW n \in Object, n.page = p,
         bound[s][p] # None, ~IsOwnedByUs(s, bound[s][p]),
         NEW ram \in [TlbSlots -> RamEntry], RamOK(s, ram)
  PROVE  LET new == RamUpdated(bound[s][p], n, store[bound[s][p].buf], ram)
         IN  /\ new \in [TlbSlots -> RamEntry]
             /\ \A r \in TlbSlots : RamFollows(s, p, n, r, new[r])
<1> DEFINE o == bound[s][p]
           ri == RamIndex[p]
           new == RamUpdated(o, n, store[o.buf], ram)
           f == [page |-> p, notOurs |-> FALSE, os |-> n, buf |-> n.buf]
<1>1. o \in Object /\ o # None /\ o.page = p /\ ri \in TlbSlots /\ p # None /\ n # None /\ n.buf \in BufIds
  BY Types, TlbAssumption DEF IInv, StateOK, BoundOK
<1>2. \A r \in TlbSlots : ram[r] \in RamEntry /\ RamEntryOK(s, r, ram[r])
  BY Zenon DEF RamOK
<1>3. ASSUME NEW r \in TlbSlots, ram[r].page # p PROVE RamFollows(s, p, n, r, ram[r])
  BY <1>2, <1>3, Zenon DEF RamFollows
<1>4. ASSUME NEW r \in TlbSlots, ram[r].page = p
      PROVE  r = ri /\ ram[r].os = o /\ AllConcrete(store[o.buf])
  BY <1>1, <1>2, <1>4, Zenon DEF RamEntryOK
<1>5. ram[ri].os = o => ram[ri].page = p
  BY <1>1, <1>2, Zenon DEF RamEntryOK
<1>6. f \in RamEntry /\ RamFollows(s, p, n, ri, f)
  <2>1. f \in RamEntry /\ f.page = p /\ ~f.notOurs /\ f.os = n /\ f.buf = n.buf
    BY <1>1, Zenon DEF RamEntry
  <2> QED BY <1>1, <2>1, Zenon DEF RamFollows
<1> HIDE DEF f
<1>7. CASE ram[ri].os # o
  <2>1. new = ram
    BY <1>1, <1>7, Zenon DEF RamUpdated
  <2> HIDE DEF new
  <2> QED BY <1>3, <1>4, <1>7, <2>1, Zenon DEF new
<1>8. CASE ram[ri].os = o
  <2>1. new = [ram EXCEPT ![ri] = f]
    BY <1>1, <1>4, <1>5, <1>8, Zenon DEF RamUpdated, f
  <2> HIDE DEF new
  <2>2. new \in [TlbSlots -> RamEntry] /\ new[ri] = f /\ \A r \in TlbSlots \ {ri} : new[r] = ram[r]
    BY <1>1, <1>6, <2>1, Zenon
  <2> QED BY <1>3, <1>4, <1>6, <2>2, Zenon DEF new
<1> QED BY <1>7, <1>8, Zenon

\* An owned object is written in place.
LEMMA WriteOwned ==
  ASSUME IInv, NEW s \in live, NEW p \in Pages, NEW i \in Offsets, NEW v \in Values,
         NEW b \in BufIds, NEW ram \in [TlbSlots -> RamEntry], RamOK(s, ram),
         WriteObject(s, p, i, v, b, ram, TRUE), IsOwnedByUs(s, bound[s][p])
  PROVE  IInv' /\ IsolatedStep
<1> DEFINE o == bound[s][p]
           before == store[o.buf]
           after == [before EXCEPT ![i] = v]
           reported == AllConcrete(before) # AllConcrete(after)
           base == IF o.split /\ i # 0 /\ memcache[s][p] = None THEN o ELSE memcache[s][p]
           st == [store EXCEPT ![b] = after]
           new == IF reported THEN EntriesUpdated(s, o, o, after, TRUE) ELSE tlb[s]
           ramNew == IF reported THEN RamDropped(s, o, ram) ELSE ram
<1>1. /\ o # None /\ b = o.buf
      /\ store' = st
      /\ IF reported
         THEN /\ tlb' = [tlb EXCEPT ![s] = EntriesUpdated(s, o, o, after, TRUE)]
              /\ memcache' = [memcache EXCEPT ![s] = [memcache[s] EXCEPT ![p] = base]]
              /\ ramTlb' = [ramTlb EXCEPT ![s] = RamDropped(s, o, ram)]
         ELSE /\ tlb' = tlb /\ memcache' = memcache
              /\ ramTlb' = [ramTlb EXCEPT ![s] = ram]
      /\ UNCHANGED <<live, active, cowKey, bound, tlbMap>>
  <2>1. o # None /\ b = o.buf /\ WriteInPlace(s, p, i, v, ram, TRUE)
    BY Zenon DEF WriteObject
  <2>2. CASE reported
    BY <2>1, <2>2, Zenon DEF WriteInPlace
  <2>3. CASE ~reported
    BY <2>1, <2>3, Zenon DEF WriteInPlace
  <2> QED BY <2>2, <2>3, Zenon
<1>2. /\ s \in States /\ TypeOK /\ o \in Object /\ o.page = p
      /\ before \in [Offsets -> Values] /\ after \in [Offsets -> Values]
  <2>1. s \in States /\ TypeOK /\ BoundOK(s)
    BY Zenon DEF IInv, TypeOK, StateOK
  <2>2. o \in Object /\ o.page = p /\ store[o.buf] # Freed
    BY <1>1, <2>1, Types, Zenon DEF BoundOK
  <2>3. before \in [Offsets -> Values]
    BY <2>1, <2>2, Types, Zenon
  <2> QED BY <2>1, <2>2, <2>3, Zenon
<1> HIDE DEF after, new, ramNew, base, st
<1>3. /\ st \in [BufIds -> [Offsets -> Values] \cup {Freed}]
      /\ st[b] = after /\ \A a \in BufIds \ {b} : st[a] = store[a]
  BY <1>2, Zenon DEF TypeOK, st
<1>4. bound' = bound
  BY <1>1, Zenon
<1>5. /\ store' \in [BufIds -> [Offsets -> Values] \cup {Freed}]
      /\ \A t \in States, q \in Pages : bound[t][q] # None =>
           bound[t][q].buf \in BufIds /\ store'[bound[t][q].buf] = st[bound[t][q].buf]
  BY <1>1, <1>2, <1>3, Types, Zenon
<1>6. \A t \in States, q \in Pages : (t # s \/ q # p) /\ bound[t][q] # None => bound[t][q].buf # b
  BY <1>1, <1>2 DEF IInv, BufferSharing
<1>7. EntriesFollow(s, o, o, after, new)
  <2>1. CASE reported
    BY <1>2, <2>1, EntriesFact, Zenon DEF new
  <2>2. CASE ~reported
    <3>1. new = tlb[s] /\ tlb[s] \in [Coords -> Entry]
      BY <1>2, <2>2, Zenon DEF new, TypeOK
    <3>2. ASSUME NEW c \in Coords, tlb[s][c].os = o
          PROVE  tlb[s][c].buf = o.buf /\ (tlb[s][c].symb <=> ~AllConcrete(before))
      <4>1. EntryOK(s, tlb[s][c])
        BY <1>2, Zenon DEF IInv, StateOK, TlbOK
      <4> QED BY <1>1, <3>2, <4>1, Zenon DEF EntryOK
    <3>3. AllConcrete(before) <=> AllConcrete(after)
      BY <2>2, Zenon DEF AllConcrete
    <3> QED BY <3>1, <3>2, <3>3, Zenon DEF EntriesFollow
  <2> QED BY <2>1, <2>2, Zenon
<1>8. /\ ramNew \in [TlbSlots -> RamEntry]
      /\ \A r \in TlbSlots : RamFollows(s, p, o, r, ramNew[r])
  <2>1. ramNew \in [TlbSlots -> RamEntry] /\ \A r \in TlbSlots : ramNew[r] \in {ram[r], NoRamEntry}
    BY <1>2, RamDroppedFact, Zenon DEF ramNew
  <2>2. ASSUME NEW r \in TlbSlots PROVE RamEntryOK(s, r, ramNew[r]) \/ ramNew[r] = NoRamEntry
    BY <2>1, Zenon DEF RamOK
  <2> QED BY <1>1, <2>1, <2>2, RamInPlace, Zenon
<1>9. base \in Object \cup {None} /\ base \in {None, o}
  BY <1>1, <1>2, Zenon DEF base, IInv, StateOK, CacheOK
<1>10. /\ tlb' \in [States -> [Coords -> Entry]] /\ tlb'[s] = new
       /\ tlbMap' = tlbMap
       /\ ramTlb' \in [States -> [TlbSlots -> RamEntry]] /\ ramTlb'[s] = ramNew
       /\ \A t \in States \ {s} : tlb'[t] = tlb[t] /\ ramTlb'[t] = ramTlb[t]
  <2>1. ramTlb' = [ramTlb EXCEPT ![s] = ramNew]
    BY <1>1, Zenon DEF ramNew
  <2>2. /\ tlb' \in [States -> [Coords -> Entry]] /\ tlb'[s] = new
        /\ \A t \in States \ {s} : tlb'[t] = tlb[t]
    <3>1. CASE reported
      BY <1>1, <1>2, <1>7, <3>1, Zenon DEF TypeOK, EntriesFollow, new
    <3>2. CASE ~reported
      BY <1>1, <1>2, <3>2, Zenon DEF TypeOK, new
    <3> QED BY <3>1, <3>2, Zenon
  <2> QED BY <1>1, <1>2, <1>8, <2>1, <2>2, Zenon DEF TypeOK
<1>11. /\ memcache' \in [States -> [Pages -> Object \cup {None}]]
       /\ memcache'[s][p] \in {None, o}
       /\ \A q \in Pages \ {p} : memcache'[s][q] = memcache[s][q]
       /\ \A t \in States \ {s} : memcache'[t] = memcache[t]
  <2>1. CASE reported
    <3>1. /\ memcache' = [memcache EXCEPT ![s] = [memcache[s] EXCEPT ![p] = base]]
          /\ memcache \in [States -> [Pages -> Object \cup {None}]]
      BY <1>1, <1>2, <2>1, Zenon DEF TypeOK
    <3>2. [memcache[s] EXCEPT ![p] = base] \in [Pages -> Object \cup {None}]
      BY <1>2, <1>9, <3>1, Zenon
    <3> QED BY <1>2, <1>9, <3>1, <3>2, Zenon
  <2>2. CASE ~reported
    BY <1>1, <1>2, <2>2, Zenon DEF TypeOK, IInv, StateOK, CacheOK
  <2> QED BY <2>1, <2>2, Zenon
<1>12. TypeOK'
  BY <1>1, <1>2, <1>4, <1>5, <1>10, <1>11, ZenonT(30) DEF TypeOK
<1>13. \A t \in States \ {s} : Untouched(t)
  BY <1>1, <1>4, <1>10, <1>11, Zenon DEF Untouched
<1>14. Replaced(s, p, o, after)
  <2>1. \A c \in Coords, x \in Object : <<x, c>> \in tlbMap'[s] <=> tlb'[s][c].os = x
    <3>1. \A c \in Coords, x \in Object : <<x, c>> \in tlbMap[s] <=> tlb[s][c].os = x
      BY <1>2, Zenon DEF IInv, StateOK, TlbOK
    <3>2. \A c \in Coords : tlb'[s][c].os = tlb[s][c].os
      BY <1>7, <1>10, Zenon DEF EntriesFollow
    <3> QED BY <1>10, <3>1, <3>2, Zenon
  <2>2. store'[o.buf] = after
    BY <1>1, <1>2, <1>3, <1>5, Zenon
  <2>3. \A t \in States, q \in Pages : (t # s \/ q # p) /\ bound[t][q] # None =>
           bound[t][q].buf # o.buf /\ store'[bound[t][q].buf] = store[bound[t][q].buf]
    BY <1>1, <1>3, <1>5, <1>6
  <2>4. after \in [Offsets -> Values]
    BY <1>2, Zenon
  <2>5. \A c \in Coords :
           IF tlb[s][c].os = o
           THEN /\ tlb'[s][c].os = o /\ tlb'[s][c].buf = o.buf
                /\ tlb'[s][c].symb <=> ~AllConcrete(after)
           ELSE tlb'[s][c] = tlb[s][c]
    BY <1>7, <1>10, Zenon DEF EntriesFollow
  <2> HIDE DEF before
  <2> QED BY <1>2, <1>4, <1>11, <2>1, <2>2, <2>3, <2>4, <2>5, Zenon DEF Replaced
<1> QED BY <1>1, <1>8, <1>10, <1>12, <1>13, <1>14, ReplacedStep, Zenon

\* An object that is not owned is copied first.
LEMMA WriteCopy ==
  ASSUME IInv, NEW s \in live, NEW p \in Pages, NEW i \in Offsets, NEW v \in Values,
         NEW b \in BufIds, NEW ram \in [TlbSlots -> RamEntry], RamOK(s, ram),
         WriteObject(s, p, i, v, b, ram, TRUE), ~IsOwnedByUs(s, bound[s][p])
  PROVE  IInv' /\ IsolatedStep
<1> DEFINE o == bound[s][p]
           n == [o EXCEPT !.owner = cowKey[s], !.buf = b]
           before == store[o.buf]
           after == [before EXCEPT ![i] = v]
           reported == AllConcrete(before) # AllConcrete(after)
           base == IF reported /\ o.split /\ i # 0 THEN n ELSE None
           st == [store EXCEPT ![b] = after]
           seen == IF reported THEN after ELSE before
           new == EntriesUpdated(s, o, n, seen, TRUE)
           refs == RefsMoved(s, o, n)
           ramCopied == RamUpdated(o, n, before, RamDropped(s, o, ram))
           ramNew == IF reported THEN RamDropped(s, o, ramCopied) ELSE ramCopied
<1>1. /\ o # None /\ store[b] = Freed
      /\ bound' = [bound EXCEPT ![s] = [bound[s] EXCEPT ![p] = n]]
      /\ Collect(st)
      /\ tlb' = [tlb EXCEPT ![s] = new]
      /\ tlbMap' = [tlbMap EXCEPT ![s] = refs]
      /\ memcache' = [memcache EXCEPT ![s] = [memcache[s] EXCEPT ![p] = base]]
      /\ ramTlb' = [ramTlb EXCEPT ![s] = ramNew]
      /\ UNCHANGED <<live, active, cowKey>>
  BY Zenon DEF WriteObject, WriteCopied, FirstFree
<1>2. /\ s \in States /\ TypeOK /\ o \in Object /\ o.page = p
      /\ before \in [Offsets -> Values] /\ after \in [Offsets -> Values]
  <2>1. s \in States /\ TypeOK /\ BoundOK(s)
    BY Zenon DEF IInv, TypeOK, StateOK
  <2>2. o \in Object /\ o.page = p /\ store[o.buf] # Freed
    BY <1>1, <2>1, Types, Zenon DEF BoundOK
  <2>3. before \in [Offsets -> Values]
    BY <2>1, <2>2, Types, Zenon
  <2> QED BY <2>1, <2>2, <2>3, Zenon
<1>3. n \in Object /\ n.page = p /\ n.owner = cowKey[s] /\ n.buf = b
  <2>1. cowKey[s] \in Nat
    BY <1>2, Types, Zenon
  <2> QED BY <1>2, <2>1, Zenon DEF Object
<1> HIDE DEF after, n, new, refs, ramNew, base, st
<1>4. /\ st \in [BufIds -> [Offsets -> Values] \cup {Freed}]
      /\ st[b] = after /\ \A a \in BufIds \ {b} : st[a] = store[a]
  BY <1>2, Zenon DEF TypeOK, st
<1>5. /\ bound' \in [States -> [Pages -> Object \cup {None}]] /\ bound'[s][p] = n
      /\ \A q \in Pages \ {p} : bound'[s][q] = bound[s][q]
      /\ \A t \in States \ {s} : bound'[t] = bound[t]
  BY <1>1, <1>2, <1>3, Zenon DEF TypeOK
<1>6. /\ store' \in [BufIds -> [Offsets -> Values] \cup {Freed}]
      /\ \A t \in States, q \in Pages : bound'[t][q] # None =>
           bound'[t][q].buf \in BufIds /\ store'[bound'[t][q].buf] = st[bound'[t][q].buf]
  <2>1. \A t \in States, q \in Pages : bound'[t][q] # None => bound'[t][q].buf \in BufIds
    BY <1>5 DEF Object
  <2> QED BY <1>1, <1>4, <2>1, Collected
<1>7. \A t \in States, q \in Pages : bound[t][q] # None => bound[t][q].buf \in BufIds \ {b}
  BY <1>1, FreeIsUnused, Zenon
<1>8. EntriesFollow(s, o, n, after, new)
  <2>1. AllConcrete(seen) <=> AllConcrete(after)
    BY Zenon DEF AllConcrete
  <2> HIDE DEF seen
  <2>2. EntriesFollow(s, o, n, seen, new)
    BY <1>2, <1>3, EntriesFact, Zenon DEF new
  <2> QED BY <2>1, <2>2, Zenon DEF EntriesFollow
<1>9. /\ refs \subseteq Object \X Coords
      /\ \A c \in Coords, x \in Object : <<x, c>> \in refs <=> new[c].os = x
  BY <1>1, <1>2, <1>3, <1>8, RefsFact DEF refs, EntriesFollow
<1>10. /\ ramNew \in [TlbSlots -> RamEntry]
       /\ \A r \in TlbSlots : RamFollows(s, p, n, r, ramNew[r])
  <2> DEFINE dropped == RamDropped(s, o, ram)
  <2>1. dropped \in [TlbSlots -> RamEntry] /\ \A r \in TlbSlots : dropped[r] \in {ram[r], NoRamEntry}
    BY <1>2, RamDroppedFact, Zenon
  <2>2. RamOK(s, dropped)
    BY <2>1, EmptyRamEntry, Zenon DEF RamOK
  <2> HIDE DEF dropped
  <2>3. /\ ramCopied \in [TlbSlots -> RamEntry]
        /\ \A r \in TlbSlots : RamFollows(s, p, n, r, ramCopied[r])
    BY <1>1, <1>2, <1>3, <2>1, <2>2, RamCopied, Zenon DEF dropped
  <2> HIDE DEF ramCopied
  <2>4. /\ ramNew \in [TlbSlots -> RamEntry]
        /\ \A r \in TlbSlots : ramNew[r] \in {ramCopied[r], NoRamEntry}
    BY <1>2, <2>3, RamDroppedFact, Zenon DEF ramNew
  <2>5. \A r : RamFollows(s, p, n, r, NoRamEntry)
    BY EmptyRamEntry, Zenon DEF RamFollows
  <2> QED BY <2>3, <2>4, <2>5, Zenon
<1>11. base \in Object \cup {None} /\ base \in {None, n}
  BY <1>3, ZenonT(30) DEF base
<1>12. /\ tlb' \in [States -> [Coords -> Entry]] /\ tlb'[s] = new
       /\ tlbMap' \in [States -> SUBSET (Object \X Coords)] /\ tlbMap'[s] = refs
       /\ ramTlb' \in [States -> [TlbSlots -> RamEntry]] /\ ramTlb'[s] = ramNew
       /\ \A t \in States \ {s} : tlb'[t] = tlb[t] /\ tlbMap'[t] = tlbMap[t] /\ ramTlb'[t] = ramTlb[t]
  BY <1>1, <1>2, <1>8, <1>9, <1>10 DEF TypeOK, EntriesFollow
<1>13. /\ memcache' \in [States -> [Pages -> Object \cup {None}]] /\ memcache'[s][p] = base
       /\ \A q \in Pages \ {p} : memcache'[s][q] = memcache[s][q]
       /\ \A t \in States \ {s} : memcache'[t] = memcache[t]
  BY <1>1, <1>2, <1>11, Zenon DEF TypeOK
<1>14. TypeOK'
  BY <1>1, <1>2, <1>5, <1>6, <1>12, <1>13, Zenon DEF TypeOK
<1>15. \A t \in States \ {s} : Untouched(t)
  BY <1>1, <1>5, <1>12, <1>13, ZenonT(30) DEF Untouched
<1>16. Replaced(s, p, n, after)
  <2>1. \A c \in Coords, x \in Object : <<x, c>> \in tlbMap'[s] <=> tlb'[s][c].os = x
    BY <1>9, <1>12, Zenon
  <2>2. store'[n.buf] = after
    <3>1. n # None
      BY <1>3, TlbAssumption, Zenon
    <3>2. store'[bound'[s][p].buf] = st[bound'[s][p].buf]
      BY <1>2, <1>5, <1>6, <3>1, Zenon
    <3> QED BY <1>3, <1>4, <1>5, <3>2, Zenon
  <2>3. ASSUME NEW t \in States, NEW q \in Pages, t # s \/ q # p, bound[t][q] # None
        PROVE  bound[t][q].buf # n.buf /\ store'[bound[t][q].buf] = store[bound[t][q].buf]
    <3>1. bound'[t][q] = bound[t][q]
      BY <1>5, <2>3, Zenon
    <3>2. bound[t][q].buf \in BufIds \ {b}
      BY <1>7, <2>3, Zenon
    <3>3. store'[bound[t][q].buf] = st[bound[t][q].buf]
      BY <1>6, <2>3, <3>1, Zenon
    <3> QED BY <1>3, <1>4, <3>2, <3>3, Zenon
  <2>4. after \in [Offsets -> Values]
    BY <1>2, Zenon
  <2>5. \A c \in Coords :
           IF tlb[s][c].os = o
           THEN /\ tlb'[s][c].os = n /\ tlb'[s][c].buf = n.buf
                /\ tlb'[s][c].symb <=> ~AllConcrete(after)
           ELSE tlb'[s][c] = tlb[s][c]
    BY <1>8, <1>12, Zenon DEF EntriesFollow
  <2> HIDE DEF before
  <2> QED BY <1>3, <1>5, <1>11, <1>13, <2>1, <2>2, <2>3, <2>4, <2>5 DEF Replaced, IsOwnedByUs
<1> QED BY <1>1, <1>10, <1>12, <1>14, <1>15, <1>16, ReplacedStep, Zenon

LEMMA WriteObjectStep ==
  ASSUME IInv, NEW s \in live, NEW p \in Pages, NEW i \in Offsets, NEW v \in Values,
         NEW b \in BufIds, NEW ram \in [TlbSlots -> RamEntry], RamOK(s, ram),
         WriteObject(s, p, i, v, b, ram, TRUE)
  PROVE  IInv' /\ IsolatedStep
BY WriteOwned, WriteCopy, Zenon

LEMMA SlowWriteStep ==
  ASSUME IInv, NEW s \in live, NEW p \in Pages, NEW i \in Offsets, NEW v \in Values,
         NEW b \in BufIds, SlowWrite(s, p, i, v, b)
  PROVE  IInv' /\ IsolatedStep
<1>1. ramTlb[s] \in [TlbSlots -> RamEntry] /\ RamOK(s, ramTlb[s])
  BY Zenon DEF IInv, TypeOK, StateOK
<1>2. WriteObject(s, p, i, v, b, ramTlb[s], TRUE)
  BY Zenon DEF SlowWrite
<1> QED BY <1>1, <1>2, WriteObjectStep, Zenon

LEMMA TransferRamWriteStep ==
  ASSUME IInv, NEW p \in Pages, NEW i \in Offsets, NEW v \in Values, NEW b \in BufIds,
         TransferRamWrite(p, i, v, b)
  PROVE  IInv' /\ IsolatedStep
<1> DEFINE ram == RamFilled(active, p, i, ramTlb[active])
<1>1. bound[active][p] # None /\ WriteObject(active, p, i, v, b, ram, TRUE)
  BY Zenon DEF TransferRamWrite
<1>2. ram \in [TlbSlots -> RamEntry] /\ RamOK(active, ram)
  BY <1>1, RamFilledFact, Zenon
<1> HIDE DEF ram
<1> QED BY <1>1, <1>2, WriteObjectStep, ActiveFacts, Zenon

LEMMA SplitOwnedStep ==
  ASSUME IInv, NEW p \in Pages, SplitOwned(p)
  PROVE  IInv' /\ IsolatedStep
<1> DEFINE o == bound[active][p]
           n == [o EXCEPT !.split = TRUE]
           bytes == store[o.buf]
           new == EntriesUpdated(active, o, n, bytes, FALSE)
           refs == RefsMoved(active, o, n)
           ram == RamDropped(active, o, ramTlb[active])
<1>1. /\ o # None /\ IsOwnedByUs(active, o)
      /\ bound' = [bound EXCEPT ![active] = [bound[active] EXCEPT ![p] = n]]
      /\ tlb' = [tlb EXCEPT ![active] = new]
      /\ tlbMap' = [tlbMap EXCEPT ![active] = refs]
      /\ memcache' = [memcache EXCEPT ![active] = [memcache[active] EXCEPT ![p] = None]]
      /\ ramTlb' = [ramTlb EXCEPT ![active] = ram]
      /\ UNCHANGED <<live, active, cowKey, store>>
  BY Zenon DEF SplitOwned
<1>2. o \in Object /\ o.page = p /\ bytes \in [Offsets -> Values]
  BY <1>1, ActiveFacts, Types, ZenonT(30) DEF BoundOK
<1>3. n \in Object /\ n.page = p /\ n.owner = o.owner /\ n.buf = o.buf
  BY <1>2, Zenon DEF Object
<1>4. EntriesFollow(active, o, n, bytes, new)
  BY <1>2, <1>3, ActiveFacts, EntriesFact, Zenon
<1>5. /\ refs \subseteq Object \X Coords
      /\ \A c \in Coords, x \in Object : <<x, c>> \in refs <=> new[c].os = x
  <2> HIDE DEF new, n
  <2> QED BY <1>1, <1>2, <1>3, <1>4, ActiveFacts, RefsFact DEF EntriesFollow
<1> HIDE DEF new, refs, n
<1>6. /\ ram \in [TlbSlots -> RamEntry]
      /\ \A r \in TlbSlots : RamFollows(active, p, n, r, ram[r])
  <2>1. /\ ram \in [TlbSlots -> RamEntry]
        /\ \A r \in TlbSlots : ram[r] \in {ramTlb[active][r], NoRamEntry}
    BY <1>2, ActiveFacts, RamDroppedFact, Zenon DEF TypeOK
  <2>2. ASSUME NEW r \in TlbSlots PROVE RamEntryOK(active, r, ram[r]) \/ ram[r] = NoRamEntry
    BY <2>1, ActiveFacts, Zenon DEF RamOK
  <2> QED BY <1>1, <1>3, <2>1, <2>2, RamInPlace, Zenon
<1> HIDE DEF ram
<1>7. /\ bound' \in [States -> [Pages -> Object \cup {None}]] /\ bound'[active][p] = n
      /\ \A q \in Pages \ {p} : bound'[active][q] = bound[active][q]
      /\ \A t \in States \ {active} : bound'[t] = bound[t]
  BY <1>1, <1>3, ActiveFacts, Zenon DEF TypeOK
<1>8. /\ tlb' \in [States -> [Coords -> Entry]] /\ tlb'[active] = new
      /\ tlbMap' \in [States -> SUBSET (Object \X Coords)] /\ tlbMap'[active] = refs
      /\ ramTlb' \in [States -> [TlbSlots -> RamEntry]] /\ ramTlb'[active] = ram
      /\ \A t \in States \ {active} :
           tlb'[t] = tlb[t] /\ tlbMap'[t] = tlbMap[t] /\ ramTlb'[t] = ramTlb[t]
  BY <1>1, <1>4, <1>5, <1>6, ActiveFacts, Zenon DEF TypeOK, EntriesFollow
<1>9. /\ memcache' \in [States -> [Pages -> Object \cup {None}]] /\ memcache'[active][p] = None
      /\ \A q \in Pages \ {p} : memcache'[active][q] = memcache[active][q]
      /\ \A t \in States \ {active} : memcache'[t] = memcache[t]
  BY <1>1, ActiveFacts, Zenon DEF TypeOK
<1>10. TypeOK'
  BY <1>1, <1>7, <1>8, <1>9, ActiveFacts, Zenon DEF TypeOK
<1>11. \A t \in States \ {active} : Untouched(t)
  BY <1>1, <1>7, <1>8, <1>9, Zenon DEF Untouched
<1>12. Replaced(active, p, n, bytes)
  <2>1. \A c \in Coords, x \in Object : <<x, c>> \in tlbMap'[active] <=> tlb'[active][c].os = x
    BY <1>5, <1>8, Zenon
  <2>2. IsOwnedByUs(active, n)
    BY <1>1, <1>3, Zenon DEF IsOwnedByUs
  <2>3. \A t \in States, q \in Pages : (t # active \/ q # p) /\ bound[t][q] # None =>
          bound[t][q].buf # n.buf /\ store'[bound[t][q].buf] = store[bound[t][q].buf]
    BY <1>1, <1>3, ActiveFacts DEF IInv, BufferSharing
  <2>4. \A c \in Coords :
           IF tlb[active][c].os = o
           THEN /\ tlb'[active][c].os = n /\ tlb'[active][c].buf = n.buf
                /\ tlb'[active][c].symb <=> ~AllConcrete(bytes)
           ELSE tlb'[active][c] = tlb[active][c]
    BY <1>4, <1>8, Zenon DEF EntriesFollow
  <2>5. store'[n.buf] = bytes
    BY <1>1, <1>3, Zenon
  <2> HIDE DEF bytes
  <2> QED BY <1>2, <1>3, <1>7, <1>9, <2>1, <2>2, <2>3, <2>4, <2>5, Zenon DEF Replaced
<1> QED BY <1>1, <1>6, <1>8, <1>10, <1>11, <1>12, ActiveFacts, ReplacedStep, Zenon

-------------------------------------------------------------------------------
(***************************************************************************)
(* States that are forked, selected and deleted.                           *)
(***************************************************************************)
LEMMA SwitchStateStep ==
  ASSUME IInv, NEW t \in States, SwitchState(t)
  PROVE  IInv' /\ IsolatedStep
<1>1. /\ t \in live /\ active' = t
      /\ UNCHANGED <<live, cowKey, bound, store, tlb, tlbMap, memcache, ramTlb>>
  BY Zenon DEF SwitchState
<1>2. TypeOK'
  BY <1>1, ZenonT(30) DEF IInv, TypeOK
<1>3. ASSUME NEW s \in States PROVE StateOK(s)'
  BY <1>1, KeepsState DEF IInv, Untouched, StatusKept, StateOK, BoundOK
<1>4. BufferSharing' /\ DeadStatesHoldNothing' /\ RootComesFirst'
  BY <1>1 DEF IInv, BufferSharing, IsOwnedByUs, DeadStatesHoldNothing, RootComesFirst
<1>5. IsolatedStep
  BY <1>1, Zenon DEF IsolatedStep, Contents
<1> QED BY <1>2, <1>3, <1>4, <1>5, Zenon DEF IInv

LEMMA DeleteStep ==
  ASSUME IInv, NEW s \in States, Delete(s)
  PROVE  IInv' /\ IsolatedStep
<1>1. /\ s \in live /\ s # active /\ live' = live \ {s}
      /\ bound' = [bound EXCEPT ![s] = NoPages]
      /\ tlb' = [tlb EXCEPT ![s] = EmptyTlb]
      /\ tlbMap' = [tlbMap EXCEPT ![s] = {}]
      /\ memcache' = [memcache EXCEPT ![s] = NoPages]
      /\ ramTlb' = [ramTlb EXCEPT ![s] = EmptyRamTlb]
      /\ Collect(store)
      /\ UNCHANGED <<active, cowKey>>
  BY Zenon DEF Delete
<1>2. /\ NoPages \in [Pages -> Object \cup {None}] /\ \A p \in Pages : NoPages[p] = None
      /\ EmptyTlb \in [Coords -> Entry] /\ \A c \in Coords : EmptyTlb[c].os = None /\ ~EmptyTlb[c].direct
      /\ EmptyRamTlb \in [TlbSlots -> RamEntry] /\ \A r \in TlbSlots : EmptyRamTlb[r] = NoRamEntry
  BY EmptyRamEntry, Zenon DEF NoPages, EmptyTlb, EmptyEntry, Entry, EmptyRamTlb
<1> HIDE DEF NoPages, EmptyTlb, EmptyRamTlb
<1>3. /\ bound' \in [States -> [Pages -> Object \cup {None}]] /\ bound'[s] = NoPages
      /\ memcache' \in [States -> [Pages -> Object \cup {None}]] /\ memcache'[s] = NoPages
      /\ tlb' \in [States -> [Coords -> Entry]] /\ tlb'[s] = EmptyTlb
      /\ tlbMap' \in [States -> SUBSET (Object \X Coords)] /\ tlbMap'[s] = {}
      /\ ramTlb' \in [States -> [TlbSlots -> RamEntry]] /\ ramTlb'[s] = EmptyRamTlb
  BY <1>1, <1>2, ActiveFacts, Zenon DEF TypeOK
<1>4. \A t \in States \ {s} : Untouched(t)
  BY <1>1, ActiveFacts, Zenon DEF Untouched, TypeOK
<1>5. /\ store' \in [BufIds -> [Offsets -> Values] \cup {Freed}]
      /\ \A t \in States \ {s} : BuffersKept(t)
  <2>1. store \in [BufIds -> [Offsets -> Values] \cup {Freed}]
    BY ActiveFacts, Zenon DEF TypeOK
  <2>2. /\ store' \in [BufIds -> [Offsets -> Values] \cup {Freed}]
        /\ \A t \in States, q \in Pages :
             bound'[t][q] # None /\ bound'[t][q].buf \in BufIds =>
               store'[bound'[t][q].buf] = store[bound'[t][q].buf]
    BY <1>1, <2>1, Collected, Zenon
  <2>3. ASSUME NEW t \in States \ {s}, NEW q \in Pages, bound[t][q] # None
        PROVE  store'[bound[t][q].buf] = store[bound[t][q].buf]
    <3>1. bound'[t] = bound[t]
      BY <1>4, Zenon DEF Untouched
    <3>2. bound[t][q].buf \in BufIds
      BY <2>3, ActiveFacts, Types, Zenon
    <3> QED BY <2>2, <2>3, <3>1, <3>2, Zenon
  <2> QED BY <2>2, <2>3, Zenon DEF BuffersKept
<1>6. TypeOK'
  BY <1>1, <1>3, <1>5, ActiveFacts, Zenon DEF TypeOK
<1>7. ASSUME NEW t \in States \ {s} PROVE StateOK(t)'
  <2>1. StatusKept(t)
    BY <1>5 DEF BuffersKept, StatusKept, IInv, StateOK, BoundOK
  <2> QED BY <1>4, <2>1, KeepsState, ZenonT(30) DEF IInv
<1>8. StateOK(s)'
  <2>1. BoundOK(s)' /\ CacheOK(s)'
    BY <1>2, <1>3, Zenon DEF BoundOK, CacheOK
  <2>2. TlbOK(s)'
    BY <1>2, <1>3, TlbAssumption, Zenon DEF TlbOK, EntryOK
  <2>3. RamOK(s, ramTlb[s])'
    BY <1>2, <1>3, EmptyRamEntry, Zenon DEF RamOK, RamEntryOK
  <2> QED BY <2>1, <2>2, <2>3, Zenon DEF StateOK
<1>9. BufferSharing'
  BY <1>1, <1>2, <1>3, <1>4 DEF IInv, BufferSharing, IsOwnedByUs, Untouched
<1>10. DeadStatesHoldNothing'
  BY <1>1, <1>3, <1>4, Zenon DEF IInv, DeadStatesHoldNothing, Untouched
<1>11. RootComesFirst'
  BY <1>1, ActiveFacts, Zenon DEF IInv, RootComesFirst
<1>12. IsolatedStep
  <2>1. ASSUME NEW t \in States \ {s}, NEW p \in Pages PROVE Contents(t, p)' = Contents(t, p)
    BY <1>4, <1>5 DEF Contents, Untouched, BuffersKept
  <2> QED BY <1>1, <2>1, ActiveFacts, Zenon DEF IsolatedStep, TypeOK
<1> QED BY <1>6, <1>7, <1>8, <1>9, <1>10, <1>11, <1>12, Zenon DEF IInv

LEMMA ForkStep ==
  ASSUME IInv, NEW t \in States \ live, Fork(t)
  PROVE  IInv' /\ IsolatedStep
<1> DEFINE g(c) == [tlb[active][c] EXCEPT !.notOurs = TRUE]
           shared == [c \in Coords |-> g(c)]
           k == cowKey[active]
<1>1. /\ cowKey[t] = 0 /\ live' = live \cup {t}
      /\ cowKey' = [cowKey EXCEPT ![active] = k + 1, ![t] = k + 1]
      /\ bound' = [bound EXCEPT ![t] = bound[active]]
      /\ tlb' = [tlb EXCEPT ![active] = shared, ![t] = shared]
      /\ tlbMap' = [tlbMap EXCEPT ![t] = tlbMap[active]]
      /\ ramTlb' = [ramTlb EXCEPT ![active] = EmptyRamTlb]
      /\ UNCHANGED <<active, store, memcache>>
  BY Zenon DEF Fork
<1>2. t # active /\ k \in Nat /\ EmptyRamTlb \in [TlbSlots -> RamEntry]
  BY ActiveFacts, Types, EmptyRamEntry, Zenon DEF EmptyRamTlb
<1>3. ASSUME NEW c \in Coords
      PROVE  /\ g(c) \in Entry /\ g(c).direct = tlb[active][c].direct /\ g(c).notOurs
             /\ g(c).os = tlb[active][c].os /\ g(c).buf = tlb[active][c].buf
             /\ g(c).symb = tlb[active][c].symb
  <2>1. tlb[active][c] \in Entry
    BY ActiveFacts, Types, Zenon
  <2>2. g(c) \in Entry
    BY <2>1, Zenon DEF Entry
  <2> QED BY <2>1, <2>2, Zenon DEF Entry
<1> HIDE DEF g
<1>4. shared \in [Coords -> Entry] /\ \A c \in Coords : shared[c] = g(c)
  BY <1>3, Zenon
<1> HIDE DEF shared
<1>5. /\ cowKey' \in [States -> Nat] /\ cowKey'[active] = k + 1 /\ cowKey'[t] = k + 1
      /\ bound' \in [States -> [Pages -> Object \cup {None}]]
      /\ bound'[active] = bound[active] /\ bound'[t] = bound[active]
  BY <1>1, <1>2, ActiveFacts DEF TypeOK
<1>6. /\ tlb' \in [States -> [Coords -> Entry]] /\ tlb'[active] = shared /\ tlb'[t] = shared
      /\ tlbMap' \in [States -> SUBSET (Object \X Coords)]
      /\ tlbMap'[active] = tlbMap[active] /\ tlbMap'[t] = tlbMap[active]
  BY <1>1, <1>2, <1>4, ActiveFacts, Zenon DEF TypeOK
<1>7. /\ ramTlb' \in [States -> [TlbSlots -> RamEntry]] /\ ramTlb'[active] = EmptyRamTlb
      /\ ramTlb'[t] = EmptyRamTlb /\ memcache'[t] = NoPages
  BY <1>1, <1>2, ActiveFacts, Zenon DEF TypeOK, IInv, DeadStatesHoldNothing
<1>8. \A u \in States \ {active, t} : Untouched(u)
  BY <1>1, <1>2, ActiveFacts, Zenon DEF Untouched, TypeOK
<1>9. TypeOK'
  BY <1>1, <1>5, <1>6, <1>7, ActiveFacts, Zenon DEF TypeOK
<1>10. ASSUME NEW u \in {active, t} PROVE StateOK(u)'
  <2>1. /\ cowKey'[u] = k + 1 /\ bound'[u] = bound[active] /\ tlb'[u] = shared
        /\ tlbMap'[u] = tlbMap[active] /\ ramTlb'[u] = EmptyRamTlb
        /\ memcache'[u] = memcache[active] \/ memcache'[u] = NoPages
    BY <1>1, <1>5, <1>6, <1>7, Zenon
  <2>2. BoundOK(u)'
    <3> SUFFICES ASSUME NEW p \in Pages, bound[active][p] # None
                 PROVE  /\ bound[active][p].page = p /\ bound[active][p].owner <= k + 1
                        /\ store[bound[active][p].buf] # Freed
      BY <1>1, <2>1, ZenonT(30) DEF BoundOK
    <3>1. /\ bound[active][p].page = p /\ bound[active][p].owner <= k
          /\ store[bound[active][p].buf] # Freed
      BY ActiveFacts, Zenon DEF BoundOK
    <3>2. bound[active][p].owner \in Nat
      BY ActiveFacts, Types, Zenon
    <3> QED BY <1>2, <3>1, <3>2
  <2>3. TlbOK(u)'
    <3>1. ASSUME NEW c \in Coords PROVE EntryOK(u, tlb[u][c])'
      <4>1. EntryOK(active, tlb[active][c])
        BY ActiveFacts, Zenon DEF TlbOK
      <4> DEFINE e == tlb[active][c]
                 f == g(c)
      <4>2. /\ f = tlb'[u][c] /\ f.direct = e.direct /\ f.notOurs
            /\ f.os = e.os /\ f.buf = e.buf /\ f.symb = e.symb
        BY <1>3, <1>4, <2>1, Zenon
      <4> HIDE DEF f
      <4>3. f.direct => f.os # None
        BY <4>1, <4>2, Zenon DEF EntryOK
      <4>4. f.os # None => /\ f.os = bound'[u][f.os.page]
                           /\ f.buf = f.os.buf
                           /\ f.symb <=> ~AllConcrete(store'[f.buf])
        BY <1>1, <2>1, <4>1, <4>2, Zenon DEF EntryOK
      <4> QED BY <4>2, <4>3, <4>4, Zenon DEF EntryOK, AllConcrete
    <3>2. \A c \in Coords, o \in Object : <<o, c>> \in tlbMap[active] <=> tlb[active][c].os = o
      BY ActiveFacts, Zenon DEF TlbOK
    <3> QED BY <1>3, <1>4, <2>1, <3>1, <3>2 DEF TlbOK
  <2>4. CacheOK(u)'
    BY <2>1, ActiveFacts, Zenon DEF CacheOK, NoPages
  <2>5. RamOK(u, ramTlb[u])'
    BY <2>1, EmptyRamEntry, Zenon DEF RamOK, RamEntryOK, EmptyRamTlb
  <2> QED BY <2>2, <2>3, <2>4, <2>5, Zenon DEF StateOK
<1>11. ASSUME NEW u \in States \ {active, t} PROVE StateOK(u)'
  <2>1. StatusKept(u)
    BY <1>1, Zenon DEF StatusKept, IInv, StateOK, BoundOK
  <2> QED BY <1>8, <2>1, KeepsState, Zenon DEF IInv
<1>12. BufferSharing'
  <2> SUFFICES ASSUME NEW u \in States, NEW w \in States, NEW p \in Pages, NEW q \in Pages,
                      bound'[u][p] # None, bound'[w][q] # None, bound'[u][p].buf = bound'[w][q].buf
               PROVE  p = q /\ (IsOwnedByUs(u, bound[u][p])' => u = w)
    BY Zenon DEF BufferSharing
  <2> DEFINE from(x) == IF x = t THEN active ELSE x
  <2>1. \A x \in States : from(x) \in States /\ bound'[x] = bound[from(x)]
    BY <1>5, <1>8, ActiveFacts, Zenon DEF Untouched
  <2>2. p = q /\ (IsOwnedByUs(from(u), bound[from(u)][p]) => from(u) = from(w))
    <3> HIDE DEF from
    <3> QED BY <2>1 DEF IInv, BufferSharing
  <2>3. CASE u \in {active, t}
    <3>1. bound'[u][p] = bound[active][p] /\ cowKey'[u] = k + 1
      BY <1>5, <2>3, Zenon
    <3>2. bound[active][p].owner \in Nat /\ bound[active][p].owner <= k
      BY <3>1, ActiveFacts, Types DEF BoundOK
    <3> QED BY <1>2, <2>2, <3>1, <3>2 DEF IsOwnedByUs
  <2>4. CASE u \notin {active, t}
    BY <1>8, <2>2, <2>4, Zenon DEF IsOwnedByUs, Untouched
  <2> QED BY <2>3, <2>4, Zenon
<1>13. DeadStatesHoldNothing'
  BY <1>1, <1>8, ActiveFacts, Zenon DEF IInv, DeadStatesHoldNothing, Untouched
<1>14. RootComesFirst'
  <2>1. CASE Root = active
    BY <1>2, <1>5, <2>1 DEF IInv, RootComesFirst
  <2>2. CASE Root # active
    <3>1. Root # t
      BY <1>1 DEF IInv, RootComesFirst
    <3>2. cowKey'[Root] = cowKey[Root]
      BY <1>8, <2>2, <3>1, TlbAssumption, Zenon DEF Untouched
    <3> QED BY <2>2, <3>2, ActiveFacts, Zenon DEF IInv, RootComesFirst
  <2> QED BY <2>1, <2>2, Zenon
<1>15. IsolatedStep
  <2>1. ASSUME NEW u \in live, NEW p \in Pages PROVE Contents(u, p)' = Contents(u, p)
    <3>1. bound'[u] = bound[u]
      BY <1>1, ActiveFacts, Zenon DEF TypeOK
    <3> QED BY <1>1, <3>1 DEF Contents
  <2>2. ASSUME NEW p \in Pages PROVE Contents(t, p)' = Contents(active, p)
    BY <1>1, <1>5, Zenon DEF Contents
  <2> QED BY <1>1, <2>1, <2>2, Zenon DEF IsolatedStep
<1> QED BY <1>9, <1>10, <1>11, <1>12, <1>13, <1>14, <1>15, Zenon DEF IInv

-------------------------------------------------------------------------------
LEMMA InitIInv == Init => IInv
<1> SUFFICES ASSUME Init PROVE IInv
  OBVIOUS
<1>1. /\ \A s \in States, p \in Pages : bound[s][p] = None /\ memcache[s][p] = None
      /\ \A s \in States, c \in Coords : tlb[s][c] = EmptyEntry
      /\ \A s \in States, r \in TlbSlots : ramTlb[s][r] = NoRamEntry
      /\ \A s \in States : tlbMap[s] = {}
  BY Zenon DEF Init, NoPages, EmptyTlb, EmptyRamTlb
<1>2. EmptyEntry \in Entry /\ EmptyEntry.os = None /\ ~EmptyEntry.direct
  BY Zenon DEF EmptyEntry, Entry
<1>3. TypeOK
  <2>1. NoPages \in [Pages -> Object \cup {None}] /\ EmptyTlb \in [Coords -> Entry]
        /\ EmptyRamTlb \in [TlbSlots -> RamEntry]
    BY <1>2, EmptyRamEntry, Zenon DEF NoPages, EmptyTlb, EmptyRamTlb
  <2>2. \A s \in States : (IF s = Root THEN 1 ELSE 0) \in Nat
    OBVIOUS
  <2> QED BY <2>1, <2>2, TlbAssumption, Zenon DEF Init, TypeOK
<1>4. ASSUME NEW s \in States PROVE StateOK(s)
  <2>1. BoundOK(s) /\ CacheOK(s)
    BY <1>1, Zenon DEF BoundOK, CacheOK
  <2>2. TlbOK(s)
    BY <1>1, <1>2, TlbAssumption, Zenon DEF TlbOK, EntryOK
  <2>3. RamOK(s, ramTlb[s])
    BY <1>1, EmptyRamEntry, Zenon DEF RamOK
  <2> QED BY <2>1, <2>2, <2>3, Zenon DEF StateOK
<1>5. BufferSharing
  BY <1>1, Zenon DEF BufferSharing
<1>6. DeadStatesHoldNothing
  BY Zenon DEF DeadStatesHoldNothing, Init
<1>7. RootComesFirst
  BY TlbAssumption DEF RootComesFirst, Init
<1> QED BY <1>3, <1>4, <1>5, <1>6, <1>7, Zenon DEF IInv

LEMMA NextStep ==
  ASSUME IInv, Next
  PROVE  IInv' /\ IsolatedStep
<1>1. ASSUME NEW i \in TlbSlots, NEW hit \in SUBSET (MmuModes \X {i}), TlbFlushPage(hit)
      PROVE  IInv' /\ IsolatedStep
  BY <1>1, TlbFlushPageStep, Zenon DEF Coords
<1>2. ASSUME NEW p \in Pages, NEW i \in Offsets, NEW v \in Values \ {Symbolic}, DmaWrite(p, i, v)
      PROVE  IInv' /\ IsolatedStep
  BY <1>2, RamWriteStep, Zenon DEF DmaWrite
<1> QED
  BY <1>1, <1>2, RegisterRamStep, TlbFillStep, TlbFillMmioStep, TlbFlushStep, FastWriteStep, RamWriteStep,
     TransferRamReadStep, TransferRamWriteStep, SlowWriteStep, SplitOwnedStep, ForkStep,
     SwitchStateStep, DeleteStep, Zenon DEF Next

LEMMA StutterStep ==
  ASSUME IInv, UNCHANGED vars
  PROVE  IInv'
<1>1. UNCHANGED <<live, active, cowKey, bound, store, tlb, tlbMap, memcache, ramTlb>>
  BY Zenon DEF vars
<1>2. TypeOK'
  BY <1>1, ZenonT(30) DEF IInv, TypeOK
<1>3. ASSUME NEW s \in States PROVE StateOK(s)'
  BY <1>1, KeepsState DEF IInv, Untouched, StatusKept, StateOK, BoundOK
<1>4. BufferSharing' /\ DeadStatesHoldNothing' /\ RootComesFirst'
  BY <1>1 DEF IInv, BufferSharing, IsOwnedByUs, DeadStatesHoldNothing, RootComesFirst
<1> QED BY <1>2, <1>3, <1>4, Zenon DEF IInv

LEMMA IInvHolds == Spec => []IInv
BY InitIInv, NextStep, StutterStep, PTL DEF Spec

LEMMA IInvMeaning ==
  ASSUME IInv
  PROVE  /\ TlbMapIsExact /\ DirectReadsAreCurrent /\ SymbolicPagesTakeSlowPath
         /\ DirectWritesArePrivate /\ MemcacheIsCoherent
<1>1. \A s \in live : s \in States /\ TlbOK(s) /\ CacheOK(s) /\ RamOK(s, ramTlb[s])
  BY Types, Zenon DEF IInv, StateOK
<1>2. ASSUME NEW s \in live, NEW c \in Coords
      PROVE  EntryOK(s, tlb[s][c]) /\ tlb[s][c].os \in Object \cup {None}
  BY <1>1, Types, Zenon DEF TlbOK, IInv, Entry
<1>3. TlbMapIsExact
  <2> SUFFICES ASSUME NEW s \in live
               PROVE  tlbMap[s] = {<<tlb[s][c].os, c>> : c \in {c \in Coords : tlb[s][c].os # None}}
    BY Zenon DEF TlbMapIsExact
  <2>1. tlbMap[s] \subseteq Object \X Coords
    BY <1>1, Types, Zenon DEF IInv
  <2>2. \A c \in Coords, o \in Object : <<o, c>> \in tlbMap[s] <=> tlb[s][c].os = o
    BY <1>1, Zenon DEF TlbOK
  <2>3. ASSUME NEW x \in tlbMap[s]
        PROVE  x \in {<<tlb[s][c].os, c>> : c \in {c \in Coords : tlb[s][c].os # None}}
    <3>1. PICK o \in Object, c \in Coords : x = <<o, c>>
      BY <2>1
    <3> QED BY <2>2, <3>1, TlbAssumption, Zenon
  <2>4. ASSUME NEW c \in Coords, tlb[s][c].os # None
        PROVE  <<tlb[s][c].os, c>> \in tlbMap[s]
    BY <1>2, <2>2, <2>4, Zenon
  <2> QED BY <2>3, <2>4, Zenon
<1>4. DirectReadsAreCurrent
  BY <1>2, Zenon DEF DirectReadsAreCurrent, Direct, EntryOK
<1>5. SymbolicPagesTakeSlowPath
  BY <1>2, Zenon DEF SymbolicPagesTakeSlowPath, Direct, EntryOK
<1>6. DirectWritesArePrivate
  <2>1. ASSUME NEW s \in live, NEW p \in Pages, bound[s][p] # None, IsOwnedByUs(s, bound[s][p]),
               NEW t \in live \ {s}, NEW q \in Pages, bound[t][q] # None
        PROVE  bound[t][q].buf # bound[s][p].buf
    BY <1>1, <2>1 DEF IInv, BufferSharing
  <2>2. ASSUME NEW s \in live, NEW c \in Direct(s), ~tlb[s][c].notOurs
        PROVE  LET p == tlb[s][c].os.page
               IN  /\ p \in Pages /\ bound[s][p] # None /\ IsOwnedByUs(s, bound[s][p])
                   /\ bound[s][p].buf = tlb[s][c].buf
    <3>1. c \in Coords /\ tlb[s][c].direct
      BY Zenon DEF Direct
    <3>2. /\ tlb[s][c].os # None /\ tlb[s][c].os = bound[s][tlb[s][c].os.page]
          /\ tlb[s][c].buf = tlb[s][c].os.buf /\ IsOwnedByUs(s, tlb[s][c].os)
      BY <1>2, <2>2, <3>1, Zenon DEF EntryOK
    <3>3. tlb[s][c].os.page \in Pages
      BY <1>2, <3>1, <3>2, Types, Zenon DEF IInv
    <3> QED BY <3>2, <3>3, Zenon
  <2>3. ASSUME NEW s \in live, NEW r \in TlbSlots, ramTlb[s][r].page # None, ~ramTlb[s][r].notOurs
        PROVE  LET p == ramTlb[s][r].page
               IN  /\ p \in Pages /\ bound[s][p] # None /\ IsOwnedByUs(s, bound[s][p])
                   /\ bound[s][p].buf = ramTlb[s][r].buf
    <3>1. RamEntryOK(s, r, ramTlb[s][r]) /\ ramTlb[s][r] \in RamEntry
      BY <1>1, Types, Zenon DEF RamOK, IInv
    <3> QED BY <2>3, <3>1, Zenon DEF RamEntryOK, RamEntry
  <2> DEFINE throughTlb(s) == {<<tlb[s][c].os.page, tlb[s][c].buf>> :
                                 c \in {c \in Direct(s) : ~tlb[s][c].notOurs}}
             throughRam(s) == {<<ramTlb[s][r].page, ramTlb[s][r].buf>> :
                                 r \in {r \in TlbSlots :
                                          ramTlb[s][r].page # None /\ ~ramTlb[s][r].notOurs}}
  <2>4. ASSUME NEW s \in live, NEW w \in throughTlb(s) \cup throughRam(s)
        PROVE  /\ w[1] \in Pages /\ bound[s][w[1]] # None /\ IsOwnedByUs(s, bound[s][w[1]])
               /\ bound[s][w[1]].buf = w[2]
    <3>1. CASE w \in throughTlb(s)
      <4>1. PICK c \in Direct(s) : ~tlb[s][c].notOurs /\ w = <<tlb[s][c].os.page, tlb[s][c].buf>>
        BY <3>1, Zenon
      <4>2. w[1] = tlb[s][c].os.page /\ w[2] = tlb[s][c].buf
        BY <4>1, Zenon
      <4> QED BY <2>2, <4>1, <4>2, Zenon
    <3>2. CASE w \in throughRam(s)
      <4>1. PICK r \in TlbSlots : /\ ramTlb[s][r].page # None /\ ~ramTlb[s][r].notOurs
                                  /\ w = <<ramTlb[s][r].page, ramTlb[s][r].buf>>
        BY <3>2, Zenon
      <4>2. w[1] = ramTlb[s][r].page /\ w[2] = ramTlb[s][r].buf
        BY <4>1, Zenon
      <4> QED BY <2>3, <4>1, <4>2, Zenon
    <3> QED BY <3>1, <3>2, Zenon
  <2>5. ASSUME NEW s \in live, NEW w \in throughTlb(s) \cup throughRam(s)
        PROVE  /\ bound[s][w[1]].buf = w[2]
               /\ \A t \in live \ {s}, p \in Pages : bound[t][p] # None => bound[t][p].buf # w[2]
    <3> HIDE DEF throughTlb, throughRam
    <3> QED BY <2>1, <2>4
  <2> QED BY <2>5, Zenon DEF DirectWritesArePrivate
<1>7. MemcacheIsCoherent
  BY <1>1, Zenon DEF MemcacheIsCoherent, CacheOK
<1> QED BY <1>3, <1>4, <1>5, <1>6, <1>7, Zenon

\* m_tlbMap lists exactly the entries that point to an object, as audit() asserts,
\* after every copy, split, fork, flush and switch of states.
THEOREM TlbMapStaysExact == Spec => []TlbMapIsExact
<1>1. IInv => TlbMapIsExact
  BY IInvMeaning, Zenon
<1> QED BY <1>1, IInvHolds, PTL

\* A load that generated code does through the TLB reads the buffer the page is bound
\* to in the same state, whatever updateTlb was told of in between.
THEOREM TlbReadsStayCurrent == Spec => []DirectReadsAreCurrent
<1>1. IInv => DirectReadsAreCurrent
  BY IInvMeaning, Zenon
<1> QED BY <1>1, IInvHolds, PTL

\* TLB_SYMB is set on an entry exactly if its page has a symbolic byte:
\* updateTlbEntryConcreteStatus is called whenever that changes.
THEOREM TlbFlagsStayExact == Spec => []SymbolicPagesTakeSlowPath
<1>1. IInv => SymbolicPagesTakeSlowPath
  BY IInvMeaning, Zenon
<1> QED BY <1>1, IInvHolds, PTL

\* No entry of the TLB or of the RAM TLB lets a state write a buffer that another
\* state can read: clearTlbOwnership and clearRamTlb at a fork are enough.
THEOREM TlbWritesStayPrivate == Spec => []DirectWritesArePrivate
<1>1. IInv => DirectWritesArePrivate
  BY IInvMeaning, Zenon
<1> QED BY <1>1, IInvHolds, PTL

\* A hit in m_memcache is the object the address space has.
THEOREM MemcacheStaysCoherent == Spec => []MemcacheIsCoherent
<1>1. IInv => MemcacheIsCoherent
  BY IInvMeaning, Zenon
<1> QED BY <1>1, IInvHolds, PTL

\* Every step, the stores that go around the address space included, changes the
\* memory of at most one state, and a forked state starts with its parent's memory.
THEOREM StatesStayIsolated == Spec => StepsAreIsolated
<1>1. IInv /\ [Next]_vars => [IsolatedStep]_vars
  BY NextStep, Zenon
<1> QED BY <1>1, IInvHolds, PTL DEF Spec, StepsAreIsolated, IsolatedStep

===============================================================================
