----------------------------- MODULE AddressSpace -----------------------------
(***************************************************************************)
(* klee::AddressSpace: the copy-on-write memory of the execution states    *)
(* (klee/lib/Core/AddressSpace.cpp, klee/include/klee/AddressSpace.h).     *)
(*                                                                         *)
(* An address is a page and an offset into it.  A page is bound as one     *)
(* object of NPieces bytes, or, once splitMemoryObject ran, as NPieces     *)
(* objects of one byte each that share one buffer.  A buffer stands for a  *)
(* ConcreteBuffer with its concrete mask, which the code always copies     *)
(* together.  The fields of an ObjectState that matter here never change   *)
(* once it is bound, and address, size and buffer tell two ObjectStates    *)
(* apart, so an object is a record and only the buffers are shared,        *)
(* mutable and reference counted.                                          *)
(***************************************************************************)
EXTENDS Naturals

CONSTANTS
  States,   \* identities of the execution states; each is used once
  Root,     \* the initial state
  Pages,    \* the pages of memory
  NPieces,  \* bytes in a page, and objects in a split page
  Values,   \* byte contents
  BufIds,   \* pool of buffers (bound of the model)
  NoObj,    \* the null pointer
  Slots,    \* entries of AddressSpace::Cache
  Hash,     \* AddressSpace::Cache::hash
  Unmapped, \* what a read of an unbound address gives
  Freed     \* marks a buffer that is not allocated

VARIABLES
  live,     \* the execution states that exist
  cowKey,   \* AddressSpace::cowKey; 0 before the state was created
  objects,  \* AddressSpace::objects, by start address
  cache,    \* AddressSpace::m_cache
  store     \* the contents of the buffers, or Freed

vars == <<live, cowKey, objects, cache, store>>

Offsets == 0 .. NPieces - 1
Address == Pages \X Offsets
Start(p) == <<p, 0>>
Page(p) == {p} \X Offsets

ObjectState == [addr : Address, size : {1, NPieces}, owner : Nat, buf : BufIds]

ASSUME ConstantAssumption ==
  /\ Root \in States
  /\ NPieces \in Nat /\ NPieces > 1
  /\ NoObj \notin ObjectState
  /\ Hash \in [Address -> Slots]
  /\ Unmapped \notin Values
  /\ Freed \notin [Offsets -> Values]

NoObjects == [a \in Address |-> NoObj]
EmptyCache == [h \in Slots |-> NoObj]

-------------------------------------------------------------------------------
\* objects.lookup of a one-byte key: the object that covers the address.
Lookup(s, a) ==
  LET base == objects[s][Start(a[1])]
  IN  IF objects[s][a] # NoObj THEN objects[s][a]
      ELSE IF base # NoObj /\ base.size = NPieces THEN base ELSE NoObj

\* Cache::get: the slot counts only if its object starts at the address.
CacheGet(s, a) ==
  LET o == cache[s][Hash[a]]
  IN  IF o # NoObj /\ o.addr = a THEN o ELSE NoObj

FindObject(s, a) ==
  IF CacheGet(s, a) # NoObj THEN CacheGet(s, a) ELSE Lookup(s, a)

\* Cache::add and Cache::invalidate
CacheAdd(c, o) == [c EXCEPT ![Hash[o.addr]] = o]
CacheInvalidate(c, a) == [c EXCEPT ![Hash[a]] = NoObj]

\* The cache once findObject(a) returned.
CacheFound(s, a) ==
  LET o == FindObject(s, a)
  IN  IF o = NoObj THEN cache[s] ELSE CacheAdd(cache[s], o)

\* The cache once the objects new[a] of one page were added in address order.
CacheAddAll(c, new) ==
  [h \in Slots |->
     LET added == {a \in DOMAIN new : Hash[a] = h}
     IN  IF added = {} THEN c[h]
         ELSE new[CHOOSE a \in added : \A b \in added : b[2] <= a[2]]]

\* objects.replace for each of the objects new[a].
Replace(m, new) == [a \in Address |-> IF a \in DOMAIN new THEN new[a] ELSE m[a]]

IsOwnedByUs(s, o) == o.owner = cowKey[s]

ReadByte(s, a) ==
  LET o == FindObject(s, a)
  IN  IF o = NoObj THEN Unmapped ELSE store[o.buf][a[2]]

\* Reference counting: the buffers that some state's map or cache refers to.
Referenced(b) ==
  \E s \in States :
    \/ \E a \in Address : objects[s][a] # NoObj /\ objects[s][a].buf = b
    \/ \E h \in Slots : cache[s][h] # NoObj /\ cache[s][h].buf = b

\* The buffers after a step that leaves the contents st: the last reference frees.
Collect(st) == store' = [b \in BufIds |-> IF Referenced(b)' THEN st[b] ELSE Freed]

Unallocated == {b \in BufIds : store[b] = Freed}

\* Mutant of CopySet: only the object that is written is copied.
CopyAlone(o) == {o.addr}

\* The start addresses of the objects getWriteable copies along with o: o alone,
\* or every piece of the split page it belongs to.
CopySet(o) == IF o.size = NPieces THEN {o.addr} ELSE Page(o.addr[1])

-------------------------------------------------------------------------------
Init ==
  /\ live = {Root}
  /\ cowKey = [s \in States |-> IF s = Root THEN 1 ELSE 0]
  /\ objects = [s \in States |-> NoObjects]
  /\ cache = [s \in States |-> EmptyCache]
  /\ store = [b \in BufIds |-> Freed]

\* bindObject of a new page object with contents v.
BindObject(s, p, v, b) ==
  LET o == [addr |-> Start(p), size |-> NPieces, owner |-> cowKey[s], buf |-> b]
  IN  /\ \A i \in Offsets \ {0} : objects[s][<<p, i>>] = NoObj
      /\ objects' = [objects EXCEPT ![s] = [@ EXCEPT ![Start(p)] = o]]
      /\ cache' = [cache EXCEPT ![s] = CacheAdd(@, o)]
      /\ Collect([store EXCEPT ![b] = [i \in Offsets |-> v]])
      /\ UNCHANGED <<live, cowKey>>

\* Mutant of UnbindObject: the cache keeps the object.
UnbindKeepsCached(s, p) ==
  LET o == FindObject(s, Start(p))
  IN  /\ o # NoObj
      /\ o.size = NPieces
      /\ objects' = [objects EXCEPT ![s] = [@ EXCEPT ![Start(p)] = NoObj]]
      /\ UNCHANGED <<live, cowKey, cache, store>>

\* unbindObject of a page object.
UnbindObject(s, p) ==
  LET o == FindObject(s, Start(p))
  IN  /\ o # NoObj
      /\ o.size = NPieces
      /\ objects' = [objects EXCEPT ![s] = [@ EXCEPT ![Start(p)] = NoObj]]
      /\ cache' = [cache EXCEPT ![s] = CacheInvalidate(@, Start(p))]
      /\ Collect(store)
      /\ UNCHANGED <<live, cowKey>>

\* One iteration of iterateRead: nothing changes but the cache.
Read(s, a) ==
  /\ cache' = [cache EXCEPT ![s] = CacheFound(s, a)]
  /\ UNCHANGED <<live, cowKey, objects, store>>

\* One iteration of iterateWrite on an object that getWriteable returns as it is.
WriteOwned(s, a, v) ==
  LET o == FindObject(s, a)
  IN  /\ o # NoObj
      /\ IsOwnedByUs(s, o)
      /\ store' = [store EXCEPT ![o.buf] = [@ EXCEPT ![a[2]] = v]]
      /\ cache' = [cache EXCEPT ![s] = CacheFound(s, a)]
      /\ UNCHANGED <<live, cowKey, objects>>

\* Mutant of WriteShared: the byte is stored through the object that was found,
\* not through the copy getWriteable returned.
WriteSharedThroughOld(s, a, v, b) ==
  LET o == FindObject(s, a)
      new == [c \in CopySet(o) |->
                [FindObject(s, c) EXCEPT !.owner = cowKey[s], !.buf = b]]
  IN  /\ o # NoObj
      /\ ~IsOwnedByUs(s, o)
      /\ objects' = [objects EXCEPT ![s] = Replace(@, new)]
      /\ cache' = [cache EXCEPT ![s] = CacheAddAll(@, new)]
      /\ Collect([store EXCEPT ![b] = store[o.buf], ![o.buf] = [@ EXCEPT ![a[2]] = v]])
      /\ UNCHANGED <<live, cowKey>>

\* One iteration of iterateWrite on an object that getWriteable has to copy.
WriteShared(s, a, v, b) ==
  LET o == FindObject(s, a)
      new == [c \in CopySet(o) |->
                [FindObject(s, c) EXCEPT !.owner = cowKey[s], !.buf = b]]
  IN  /\ o # NoObj
      /\ ~IsOwnedByUs(s, o)
      /\ objects' = [objects EXCEPT ![s] = Replace(@, new)]
      /\ cache' = [cache EXCEPT ![s] = CacheAddAll(@, new)]
      /\ Collect([store EXCEPT ![b] = [store[o.buf] EXCEPT ![a[2]] = v]])
      /\ UNCHANGED <<live, cowKey>>

\* splitMemoryObject: a private copy of the page, then its pieces in place of it.
SplitMemoryObject(s, p, b) ==
  LET o == FindObject(s, Start(p))
      buf == IF IsOwnedByUs(s, o) THEN o.buf ELSE b
      new == [a \in Page(p) |-> [addr |-> a, size |-> 1, owner |-> cowKey[s], buf |-> buf]]
  IN  /\ o # NoObj
      /\ o.size = NPieces
      /\ IsOwnedByUs(s, o) \/ b \in Unallocated
      /\ objects' = [objects EXCEPT ![s] = Replace(@, new)]
      /\ cache' = [cache EXCEPT ![s] = CacheAddAll(CacheInvalidate(@, Start(p)), new)]
      /\ Collect([store EXCEPT ![buf] = store[o.buf]])
      /\ UNCHANGED <<live, cowKey>>

\* Mutant of Fork: the parent stays in its epoch.
ForkKeepsParentEpoch(s, t) ==
  /\ cowKey[t] = 0
  /\ live' = live \cup {t}
  /\ cowKey' = [cowKey EXCEPT ![t] = cowKey[s] + 1]
  /\ objects' = [objects EXCEPT ![t] = objects[s]]
  /\ cache' = [cache EXCEPT ![t] = EmptyCache]
  /\ UNCHANGED store

\* The copy constructor, run when state s forks state t: both enter a new epoch.
Fork(s, t) ==
  /\ cowKey[t] = 0
  /\ live' = live \cup {t}
  /\ cowKey' = [cowKey EXCEPT ![s] = @ + 1, ![t] = cowKey[s] + 1]
  /\ objects' = [objects EXCEPT ![t] = objects[s]]
  /\ cache' = [cache EXCEPT ![t] = EmptyCache]
  /\ UNCHANGED store

\* The destructor: the state's references are dropped.
Delete(s) ==
  /\ live' = live \ {s}
  /\ objects' = [objects EXCEPT ![s] = NoObjects]
  /\ cache' = [cache EXCEPT ![s] = EmptyCache]
  /\ Collect(store)
  /\ UNCHANGED cowKey

Next ==
  \E s \in live :
    \/ \E p \in Pages, v \in Values, b \in Unallocated : BindObject(s, p, v, b)
    \/ \E p \in Pages : UnbindObject(s, p)
    \/ \E a \in Address : Read(s, a)
    \/ \E a \in Address, v \in Values : WriteOwned(s, a, v)
    \/ \E a \in Address, v \in Values, b \in Unallocated : WriteShared(s, a, v, b)
    \/ \E p \in Pages, b \in BufIds : SplitMemoryObject(s, p, b)
    \/ \E t \in States \ live : Fork(s, t)
    \/ Delete(s)

Spec == Init /\ [][Next]_vars

-------------------------------------------------------------------------------
\* The variables have the types of the fields of AddressSpace: in particular
\* bindObject, splitMemoryObject and the copy constructor leave whole objects,
\* of a page or of a piece, in the map and in the cache.
TypeOK ==
  /\ live \subseteq States
  /\ cowKey \in [States -> Nat]
  /\ objects \in [States -> [Address -> ObjectState \cup {NoObj}]]
  /\ cache \in [States -> [Slots -> ObjectState \cup {NoObj}]]
  /\ store \in [BufIds -> [Offsets -> Values] \cup {Freed}]

\* AddressSpace.h: "invariant forall o in objects, o->copyOnWriteOwner <= cowKey".
OwnersWithinEpoch ==
  \A s \in live, a \in Address :
    objects[s][a] # NoObj => objects[s][a].owner <= cowKey[s]

\* isOwnedByUs is a licence to write in place: the buffer of an object that
\* getWriteable returns unchanged backs no byte of any other state.
OwnedBuffersArePrivate ==
  \A s, t \in live : \A a, b \in Address :
    LET o == objects[s][a]
        u == objects[t][b]
    IN  s # t /\ o # NoObj /\ u # NoObj /\ IsOwnedByUs(s, o) => o.buf # u.buf

\* The assertion in getWriteable's loop over the pieces of a split page: when one
\* piece has to be copied, none of its siblings is owned.
PiecesOwnedTogether ==
  \A s \in live, p \in Pages : \A i, j \in Offsets :
    LET o == objects[s][<<p, i>>]
        u == objects[s][<<p, j>>]
    IN  o # NoObj /\ u # NoObj => (IsOwnedByUs(s, o) <=> IsOwnedByUs(s, u))

\* A hit in m_cache is what the map would have given: no operation leaves a
\* replaced, split or unbound object behind in a slot.
CacheCoherent ==
  \A s \in live, h \in Slots :
    LET o == cache[s][h]
    IN  o # NoObj => objects[s][o.addr] = o

\* What every state reads, through cache and map.
memory == [s \in States |-> [a \in Address |-> ReadByte(s, a)]]

Isolated == INSTANCE IsolatedMemories WITH mem <- memory

\* Copy-on-write is invisible: what the states read behaves like memories that
\* share nothing, for every interleaving of forks, writes, splits and deletions.
ImplementsIsolatedMemories == Isolated!Spec

===============================================================================
