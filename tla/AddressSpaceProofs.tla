-------------------------- MODULE AddressSpaceProofs --------------------------
(***************************************************************************)
(* Proofs about AddressSpace for every number of states, pages and buffers:*)
(* the inductive invariant, what findObject returns under it, and that     *)
(* every step preserves it and is a step of IsolatedMemories.              *)
(***************************************************************************)
EXTENDS AddressSpace, WellFoundedInduction, TLAPS

\* A state that does not exist holds no reference.
DeadStatesHoldNothing ==
  \A s \in States \ live : objects[s] = NoObjects /\ cache[s] = EmptyCache

\* An object is bound at the address it starts at, and was created in an epoch
\* that the address space has reached.
BoundWhereItStarts ==
  \A s \in States, a \in Address :
    objects[s][a] # NoObj =>
      /\ objects[s][a].addr = a
      /\ objects[s][a].owner <= cowKey[s]
      /\ store[objects[s][a].buf] # Freed

\* A page is unbound, bound as one object, or bound as all of its pieces, which
\* then share buffer and epoch.
PageShape ==
  \A s \in States, p \in Pages, i \in Offsets :
    LET base == objects[s][Start(p)]
        o == objects[s][<<p, i>>]
    IN  IF base = NoObj \/ base.size = NPieces
        THEN i # 0 => o = NoObj
        ELSE o # NoObj /\ o.size = 1 /\ o.buf = base.buf /\ o.owner = base.owner

\* Objects that share a buffer belong to one page, and if one of them is owned
\* they belong to one state.
BufferSharing ==
  \A s, t \in States : \A a, c \in Address :
    LET o == objects[s][a]
        u == objects[t][c]
    IN  o # NoObj /\ u # NoObj /\ o.buf = u.buf =>
          a[1] = c[1] /\ (IsOwnedByUs(s, o) => s = t)

\* A cached object is the bound one, in the slot of its address.
CacheExact ==
  \A s \in States, h \in Slots :
    LET o == cache[s][h]
    IN  o # NoObj => objects[s][o.addr] = o /\ Hash[o.addr] = h

IInv ==
  /\ TypeOK
  /\ DeadStatesHoldNothing
  /\ BoundWhereItStarts
  /\ PageShape
  /\ BufferSharing
  /\ CacheExact

-------------------------------------------------------------------------------
LEMMA SmallestExists ==
  ASSUME NEW S \in SUBSET Nat, S # {}
  PROVE  \E x \in S : \A y \in S : x <= y
<1>1. PICK x \in S : \A y \in S : ~(<<y, x>> \in OpToRel(<, Nat))
  BY WFMin, NatLessThanWellFounded, Zenon
<1>2. \A y \in S : ~(y < x)
  BY <1>1, Zenon DEF OpToRel
<1> QED BY <1>2

LEMMA LargestExists ==
  ASSUME NEW N \in Nat, NEW S \in SUBSET (0 .. N), S # {}
  PROVE  \E x \in S : \A y \in S : y <= x
<1> DEFINE T == {N - x : x \in S}
<1>0. \A x \in S : x \in Nat /\ x <= N /\ N - x \in Nat
  OBVIOUS
<1>1. T \in SUBSET Nat /\ T # {}
  BY <1>0, Zenon
<1>2. PICK z \in T : \A y \in T : z <= y
  BY <1>1, SmallestExists, Zenon
<1>3. PICK x \in S : z = N - x
  BY <1>2, Zenon
<1>4. \A y \in S : N - x <= N - y
  BY <1>2, <1>3, Zenon
<1> QED BY <1>0, <1>4

LEMMA OffsetsFact == 0 \in Offsets /\ \A p \in Pages : Start(p) \in Address
  BY ConstantAssumption DEF Offsets, Address, Start

\* The cache never changes what findObject returns.
LEMMA FindIsLookup ==
  ASSUME IInv, NEW s \in States, NEW a \in Address
  PROVE  /\ FindObject(s, a) = Lookup(s, a)
         /\ Lookup(s, a) \in ObjectState \cup {NoObj}
         /\ Lookup(s, a) # NoObj =>
              /\ Lookup(s, a).addr \in Address
              /\ Lookup(s, a).addr[1] = a[1]
              /\ objects[s][Lookup(s, a).addr] = Lookup(s, a)
<1>1. /\ Hash[a] \in Slots
      /\ cache[s][Hash[a]] \in ObjectState \cup {NoObj}
      /\ objects[s][a] \in ObjectState \cup {NoObj}
  BY ConstantAssumption DEF IInv, TypeOK
<1>2. a[1] \in Pages /\ Start(a[1]) \in Address /\ Start(a[1])[1] = a[1]
  BY OffsetsFact, Zenon DEF Address, Start
<1>3. objects[s][Start(a[1])] \in ObjectState \cup {NoObj}
  BY <1>2, ZenonT(30) DEF IInv, TypeOK
<1>4. CacheGet(s, a) # NoObj => CacheGet(s, a) = objects[s][a]
  BY <1>1 DEF IInv, CacheExact, CacheGet
<1>5. FindObject(s, a) = Lookup(s, a)
  BY <1>4, Zenon DEF FindObject, Lookup
<1>6. Lookup(s, a) \in ObjectState \cup {NoObj}
  BY <1>1, <1>3, Zenon DEF Lookup
<1>7. ASSUME Lookup(s, a) # NoObj
      PROVE  /\ Lookup(s, a).addr \in Address
             /\ Lookup(s, a).addr[1] = a[1]
             /\ objects[s][Lookup(s, a).addr] = Lookup(s, a)
  BY <1>2, <1>7, Zenon DEF IInv, BoundWhereItStarts, Lookup
<1> QED BY <1>5, <1>6, <1>7, Zenon

-------------------------------------------------------------------------------
(***************************************************************************)
(* bindObject, getWriteable and splitMemoryObject all replace the objects  *)
(* of one page p of state s by objects new of the current epoch with one   *)
(* buffer nb.  Install is what they have in common.                        *)
(***************************************************************************)
NewObjects(s, p, new, nb) ==
  /\ \/ /\ DOMAIN new = {Start(p)}
        /\ new[Start(p)].size = NPieces
        /\ \A i \in Offsets \ {0} : objects[s][<<p, i>>] = NoObj
     \/ /\ DOMAIN new = Page(p)
        /\ \A c \in Page(p) : new[c].size = 1
  /\ \A c \in DOMAIN new :
       /\ new[c] \in ObjectState
       /\ new[c].addr = c
       /\ new[c].owner = cowKey[s]
       /\ new[c].buf = nb

\* The buffer is new, or was already owned by this page of this state.
PrivateBuffer(s, p, nb) ==
  \/ store[nb] = Freed
  \/ \E c \in Address : /\ c[1] = p
                       /\ objects[s][c] # NoObj
                       /\ objects[s][c].buf = nb
                       /\ IsOwnedByUs(s, objects[s][c])

\* The new cache holds new objects in their slots, and old ones that stay bound.
CacheUpdate(s, new) ==
  /\ cache' \in [States -> [Slots -> ObjectState \cup {NoObj}]]
  /\ \A t \in States \ {s} : cache'[t] = cache[t]
  /\ \A h \in Slots : cache'[s][h] # NoObj =>
       \/ \E c \in DOMAIN new : cache'[s][h] = new[c] /\ Hash[c] = h
       \/ cache'[s][h] = cache[s][h] /\ cache[s][h].addr \notin DOMAIN new

Install(s, p, new, nb, st) ==
  /\ NewObjects(s, p, new, nb)
  /\ PrivateBuffer(s, p, nb)
  /\ CacheUpdate(s, new)
  /\ objects' = [objects EXCEPT ![s] = Replace(objects[s], new)]
  /\ st[nb] \in [Offsets -> Values]
  /\ \A b \in BufIds \ {nb} : st[b] = store[b]
  /\ Collect(st)
  /\ UNCHANGED <<live, cowKey>>

\* The map afterwards, address by address.
Installed(s, p, new) ==
  /\ objects' \in [States -> [Address -> ObjectState \cup {NoObj}]]
  /\ \A t \in States \ {s} : objects'[t] = objects[t]
  /\ \A c \in Address : c \in DOMAIN new => objects'[s][c] = new[c]
  /\ \A c \in Address : c \notin DOMAIN new => objects'[s][c] = objects[s][c]
  /\ DOMAIN new \subseteq Address
  /\ \A c \in DOMAIN new : c[1] = p /\ objects'[s][c] # NoObj
  /\ \A c \in Address : c[1] = p /\ objects'[s][c] # NoObj => c \in DOMAIN new

LEMMA InstallObjects ==
  ASSUME IInv, NEW s \in live, NEW p \in Pages, NEW nb \in BufIds, NEW new, NEW st,
         Install(s, p, new, nb, st)
  PROVE  Installed(s, p, new)
<1>1. s \in States
  BY Zenon DEF IInv, TypeOK
<1>2. DOMAIN new \subseteq Address /\ \A c \in DOMAIN new : c[1] = p /\ new[c] \in ObjectState
  BY OffsetsFact DEF Install, NewObjects, Page, Address, Start
<1>3. Replace(objects[s], new) \in [Address -> ObjectState \cup {NoObj}]
  <2>1. objects[s] \in [Address -> ObjectState \cup {NoObj}]
    BY <1>1, Zenon DEF IInv, TypeOK
  <2> QED BY <1>2, <2>1, Zenon DEF Replace
<1>4. objects' = [objects EXCEPT ![s] = Replace(objects[s], new)]
  BY Zenon DEF Install
<1>5. objects' \in [States -> [Address -> ObjectState \cup {NoObj}]]
  BY <1>1, <1>3, <1>4, Zenon DEF IInv, TypeOK
<1>6. objects'[s] = Replace(objects[s], new) /\ \A t \in States \ {s} : objects'[t] = objects[t]
  BY <1>1, <1>4, Zenon DEF IInv, TypeOK
<1>7. /\ \A c \in Address : c \in DOMAIN new => objects'[s][c] = new[c]
      /\ \A c \in Address : c \notin DOMAIN new => objects'[s][c] = objects[s][c]
  BY <1>6, Zenon DEF Replace
<1>8. \A c \in DOMAIN new : c[1] = p /\ objects'[s][c] # NoObj
  BY <1>2, <1>7, ConstantAssumption, Zenon
<1>9. ASSUME NEW c \in Address, c[1] = p, objects'[s][c] # NoObj
      PROVE  c \in DOMAIN new
  <2>1. c = <<p, c[2]>> /\ c[2] \in Offsets
    BY <1>9 DEF Address
  <2>2. CASE DOMAIN new = Page(p)
    BY <2>1, <2>2, Zenon DEF Page
  <2>3. CASE DOMAIN new = {Start(p)} /\ \A i \in Offsets \ {0} : objects[s][<<p, i>>] = NoObj
    BY <2>1, <2>3, <1>7, <1>9, Zenon DEF Start
  <2> QED BY <2>2, <2>3, Zenon DEF Install, NewObjects
<1> QED BY <1>2, <1>5, <1>6, <1>7, <1>8, <1>9, Zenon DEF Installed

LEMMA InstallStore ==
  ASSUME IInv, NEW s \in live, NEW p \in Pages, NEW nb \in BufIds, NEW new, NEW st,
         Install(s, p, new, nb, st)
  PROVE  /\ store' \in [BufIds -> [Offsets -> Values] \cup {Freed}]
         /\ \A t \in States, c \in Address :
              objects'[t][c] # NoObj => store'[objects'[t][c].buf] = st[objects'[t][c].buf]
<1>0. Installed(s, p, new)
  BY InstallObjects, Zenon
<1>1. \A b \in BufIds : st[b] \in [Offsets -> Values] \cup {Freed}
  BY Zenon DEF Install, IInv, TypeOK
<1>2. store' = [b \in BufIds |-> IF Referenced(b)' THEN st[b] ELSE Freed]
  BY Zenon DEF Install, Collect
<1>3. store' \in [BufIds -> [Offsets -> Values] \cup {Freed}]
  BY <1>1, <1>2, Zenon
<1>4. ASSUME NEW t \in States, NEW c \in Address, NEW b \in BufIds,
             objects'[t][c] # NoObj, objects'[t][c].buf = b
      PROVE  store'[b] = st[b]
  <2>1. Referenced(b)'
    BY <1>4, Zenon DEF Referenced
  <2> QED BY <2>1, <1>2, Zenon
<1>5. \A t \in States, c \in Address : objects'[t][c] # NoObj => objects'[t][c].buf \in BufIds
  BY <1>0 DEF Installed, ObjectState
<1> QED BY <1>3, <1>4, <1>5, Zenon

LEMMA InstallIInv ==
  ASSUME IInv, NEW s \in live, NEW p \in Pages, NEW nb \in BufIds, NEW new, NEW st,
         Install(s, p, new, nb, st)
  PROVE  IInv'
<1>0. Installed(s, p, new)
  BY InstallObjects, Zenon
<1>1. s \in States /\ cowKey' = cowKey /\ live' = live /\ cowKey \in [States -> Nat]
  BY Zenon DEF IInv, TypeOK, Install
<1>2. TypeOK'
  BY <1>0, <1>1, InstallStore, ZenonT(30) DEF Installed, IInv, TypeOK, Install, CacheUpdate
<1>3. DeadStatesHoldNothing'
  BY <1>0, <1>1 DEF Installed, IInv, DeadStatesHoldNothing, Install, CacheUpdate
<1>4. \A c \in DOMAIN new : /\ objects'[s][c].addr = c
                            /\ objects'[s][c].owner = cowKey[s]
                            /\ objects'[s][c].buf = nb
  BY <1>0 DEF Installed, Install, NewObjects
<1>5. st[nb] # Freed /\ \A b \in BufIds : b # nb => st[b] = store[b]
  BY ConstantAssumption, Zenon DEF Install
\* An old object that stays bound uses nb only if it is on page p of state s.
<1>6. ASSUME NEW t \in States, NEW c \in Address, objects[t][c] # NoObj, objects[t][c].buf = nb
      PROVE  t = s /\ c[1] = p
  <2>1. store[nb] # Freed
    BY <1>6, Zenon DEF IInv, BoundWhereItStarts
  <2>2. PICK d \in Address : /\ d[1] = p
                             /\ objects[s][d] # NoObj
                             /\ objects[s][d].buf = nb
                             /\ IsOwnedByUs(s, objects[s][d])
    BY <2>1, Zenon DEF Install, PrivateBuffer
  <2> QED BY <1>1, <1>6, <2>2 DEF IInv, BufferSharing
<1>7. ASSUME NEW t \in States, NEW c \in Address, objects'[t][c] # NoObj
      PROVE  \/ t = s /\ c \in DOMAIN new
             \/ /\ objects'[t][c] = objects[t][c]
                /\ objects'[t][c].buf # nb
                /\ objects'[t][c] \in ObjectState
                /\ ~(t = s /\ c[1] = p)
  <2>1. CASE t = s /\ c[1] = p
    BY <1>0, <1>7, <2>1, Zenon DEF Installed
  <2>2. CASE ~(t = s /\ c[1] = p)
    <3>1. objects'[t][c] = objects[t][c]
      BY <1>0, <2>2, Zenon DEF Installed
    <3>2. objects'[t][c] \in ObjectState
      BY <1>0, <1>7 DEF Installed
    <3> QED BY <1>6, <1>7, <2>2, <3>1, <3>2, Zenon
  <2> QED BY <2>1, <2>2, Zenon
<1>8. BoundWhereItStarts'
  <2> SUFFICES ASSUME NEW t \in States, NEW c \in Address, objects'[t][c] # NoObj
               PROVE  /\ objects'[t][c].addr = c
                      /\ objects'[t][c].owner <= cowKey[t]
                      /\ store'[objects'[t][c].buf] # Freed
    BY <1>1, Zenon DEF BoundWhereItStarts
  <2>1. store'[objects'[t][c].buf] = st[objects'[t][c].buf]
    BY InstallStore
  <2>2. CASE t = s /\ c \in DOMAIN new
    BY <1>1, <1>4, <1>5, <2>1, <2>2
  <2>3. CASE objects'[t][c] = objects[t][c] /\ objects'[t][c].buf # nb /\ objects'[t][c] \in ObjectState
    BY <1>5, <2>1, <2>3 DEF IInv, BoundWhereItStarts, ObjectState
  <2> QED BY <1>7, <2>2, <2>3, Zenon
<1>9. PageShape'
  <2> SUFFICES ASSUME NEW t \in States, NEW q \in Pages, NEW i \in Offsets
               PROVE  LET base == objects'[t][Start(q)]
                          o == objects'[t][<<q, i>>]
                      IN  IF base = NoObj \/ base.size = NPieces
                          THEN i # 0 => o = NoObj
                          ELSE o # NoObj /\ o.size = 1 /\ o.buf = base.buf /\ o.owner = base.owner
    BY Zenon DEF PageShape
  <2>0. Start(q) \in Address /\ <<q, i>> \in Address /\ Start(q)[1] = q /\ <<q, i>>[1] = q
    BY OffsetsFact, Zenon DEF Address, Start
  <2>1. CASE t = s /\ q = p
    <3>1. CASE DOMAIN new = Page(p) /\ \A c \in Page(p) : new[c].size = 1
      <4>1. Start(p) \in Page(p) /\ <<p, i>> \in Page(p)
        BY OffsetsFact, Zenon DEF Page, Start
      <4>2. objects'[s][Start(p)] = new[Start(p)] /\ objects'[s][<<p, i>>] = new[<<p, i>>]
        BY <1>0, <2>0, <2>1, <3>1, <4>1, Zenon DEF Installed
      <4> QED BY <1>0, <1>4, <2>1, <3>1, <4>1, <4>2, ConstantAssumption DEF Installed
    <3>2. CASE /\ DOMAIN new = {Start(p)} /\ new[Start(p)].size = NPieces
               /\ \A j \in Offsets \ {0} : objects[s][<<p, j>>] = NoObj
      <4>1. objects'[s][Start(p)] = new[Start(p)]
        BY <1>0, <2>0, <2>1, <3>2, Zenon DEF Installed
      <4>2. i # 0 => objects'[s][<<p, i>>] = NoObj
        BY <1>0, <2>0, <2>1, <3>2, Zenon DEF Installed, Start
      <4> QED BY <2>1, <3>2, <4>1, <4>2, Zenon
    <3> QED BY <3>1, <3>2, Zenon DEF Install, NewObjects
  <2>2. CASE ~(t = s /\ q = p)
    <3>1. objects'[t][Start(q)] = objects[t][Start(q)] /\ objects'[t][<<q, i>>] = objects[t][<<q, i>>]
      BY <1>0, <2>0, <2>2 DEF Installed
    <3> QED BY <3>1 DEF IInv, PageShape
  <2> QED BY <2>1, <2>2, Zenon
<1>10. BufferSharing'
  <2> SUFFICES ASSUME NEW t \in States, NEW r \in States, NEW c \in Address, NEW d \in Address,
                      objects'[t][c] # NoObj, objects'[r][d] # NoObj,
                      objects'[t][c].buf = objects'[r][d].buf
               PROVE  c[1] = d[1] /\ (objects'[t][c].owner = cowKey[t] => t = r)
    BY <1>1 DEF BufferSharing, IsOwnedByUs
  <2>1. CASE t = s /\ c \in DOMAIN new
    BY <1>0, <1>4, <1>7, <2>1 DEF Installed
  <2>2. CASE ~(t = s /\ c \in DOMAIN new)
    <3>1. objects'[t][c] = objects[t][c] /\ objects'[t][c].buf # nb
      BY <1>7, <2>2, Zenon
    <3>2. objects'[r][d] = objects[r][d]
      BY <1>4, <1>7, <3>1
    <3> QED BY <3>1, <3>2 DEF IInv, BufferSharing, IsOwnedByUs
  <2> QED BY <2>1, <2>2, Zenon
<1>11. CacheExact'
  <2> SUFFICES ASSUME NEW t \in States, NEW h \in Slots, cache'[t][h] # NoObj
               PROVE  objects'[t][cache'[t][h].addr] = cache'[t][h] /\ Hash[cache'[t][h].addr] = h
    BY Zenon DEF CacheExact
  <2>1. CASE t # s
    <3>1. cache'[t] = cache[t]
      BY <2>1, Zenon DEF Install, CacheUpdate
    <3>2. objects'[t] = objects[t]
      BY <1>0, <2>1, Zenon DEF Installed
    <3>3. objects[t][cache[t][h].addr] = cache[t][h] /\ Hash[cache[t][h].addr] = h
      <4>1. cache[t][h] # NoObj /\ CacheExact
        BY <3>1, Zenon DEF IInv
      <4> QED BY <4>1 DEF CacheExact
    <3> QED BY <3>1, <3>2, <3>3, Zenon
  <2>2. CASE t = s /\ \E c \in DOMAIN new : cache'[s][h] = new[c] /\ Hash[c] = h
    BY <1>0, <2>2 DEF Installed, Install, NewObjects
  <2>3. CASE t = s /\ cache'[s][h] = cache[s][h] /\ cache[s][h].addr \notin DOMAIN new
    <3>1. cache[s][h] \in ObjectState
      BY <1>1, <2>3 DEF IInv, TypeOK
    <3>2. cache[s][h].addr \in Address
      BY <3>1, Zenon DEF ObjectState
    <3> QED BY <1>0, <1>1, <2>3, <3>2 DEF Installed, IInv, CacheExact
  <2> QED BY <2>1, <2>2, <2>3, Zenon DEF Install, CacheUpdate
<1> QED BY <1>2, <1>3, <1>8, <1>9, <1>10, <1>11, Zenon DEF IInv

\* What a state reads, found through the map alone.
MapByte(s, a) ==
  LET o == Lookup(s, a)
  IN  IF o = NoObj THEN Unmapped ELSE store[o.buf][a[2]]

ReadsFollowMap == \A s \in States, a \in Address : ReadByte(s, a) = MapByte(s, a)

LEMMA ReadIsMapRead == IInv => ReadsFollowMap
  BY FindIsLookup, Zenon DEF ReadByte, MapByte, ReadsFollowMap

LEMMA ReadIsMapReadNext == IInv' => ReadsFollowMap'
  BY ReadIsMapRead, PTL

\* After Install every byte of page p of state s reads from the new buffer, and
\* every other byte of every state reads as before.
LEMMA InstallMemory ==
  ASSUME IInv, NEW s \in live, NEW p \in Pages, NEW nb \in BufIds, NEW new, NEW st,
         Install(s, p, new, nb, st), NEW t \in States, NEW c \in Address
  PROVE  ReadByte(t, c)' = IF t = s /\ c[1] = p THEN st[nb][c[2]] ELSE ReadByte(t, c)
<1>0. Installed(s, p, new) /\ IInv' /\ s \in States
  BY InstallObjects, InstallIInv, Zenon DEF IInv, TypeOK
<1>1. ReadByte(t, c)' = MapByte(t, c)' /\ ReadByte(t, c) = MapByte(t, c)
  BY <1>0, ReadIsMapRead, ReadIsMapReadNext, Zenon DEF ReadsFollowMap
<1>2. Start(c[1]) \in Address /\ Start(c[1])[1] = c[1] /\ c = <<c[1], c[2]>> /\ c[1] \in Pages /\ c[2] \in Offsets
  BY OffsetsFact DEF Address, Start
<1>3. \A r \in States, d \in Address :
        objects'[r][d] # NoObj => store'[objects'[r][d].buf] = st[objects'[r][d].buf]
  BY InstallStore
<1>4. CASE t = s /\ c[1] = p
  <2>1. Lookup(t, c)' # NoObj /\ Lookup(t, c)'.buf = nb /\ store'[nb] = st[nb]
    <3>1. CASE DOMAIN new = Page(p)
      <4>1. objects'[s][c] = new[c] /\ c \in DOMAIN new
        BY <1>0, <1>2, <1>4, <3>1, Zenon DEF Installed, Page
      <4>2. objects'[s][c] # NoObj /\ objects'[s][c].buf = nb
        BY <1>0, <4>1 DEF Installed, Install, NewObjects
      <4>3. Lookup(t, c)' = objects'[s][c]
        BY <1>4, <4>2, Zenon DEF Lookup
      <4> QED BY <1>0, <1>3, <4>2, <4>3, Zenon
    <3>2. CASE DOMAIN new = {Start(p)} /\ new[Start(p)].size = NPieces
      <4>1. objects'[s][Start(p)] = new[Start(p)] /\ Start(p) \in DOMAIN new /\ Start(p) \in Address
        BY <1>0, <1>2, <1>4, <3>2, Zenon DEF Installed
      <4>2. /\ objects'[s][Start(p)] # NoObj
            /\ objects'[s][Start(p)].buf = nb
            /\ objects'[s][Start(p)].size = NPieces
        BY <1>0, <3>2, <4>1 DEF Installed, Install, NewObjects
      <4>3. objects'[s][c] # NoObj => c = Start(p)
        BY <1>0, <1>4, <3>2, Zenon DEF Installed
      <4>4. Lookup(t, c)' = objects'[s][Start(p)]
        BY <1>4, <4>2, <4>3, Zenon DEF Lookup
      <4> QED BY <1>0, <1>3, <4>1, <4>2, <4>4, Zenon
    <3> QED BY <3>1, <3>2, Zenon DEF Install, NewObjects
  <2> QED BY <1>1, <1>4, <2>1, Zenon DEF MapByte
<1>5. CASE ~(t = s /\ c[1] = p)
  <2>1. objects'[t][c] = objects[t][c] /\ objects'[t][Start(c[1])] = objects[t][Start(c[1])]
    BY <1>0, <1>2, <1>5 DEF Installed
  <2>2. Lookup(t, c)' = Lookup(t, c)
    BY <2>1, Zenon DEF Lookup
  <2>3. ASSUME Lookup(t, c) # NoObj
        PROVE  store'[Lookup(t, c).buf] = store[Lookup(t, c).buf]
    <3>1. PICK d \in Address : d[1] = c[1] /\ objects[t][d] = Lookup(t, c)
      BY <2>3, FindIsLookup, Zenon
    <3>2. objects'[t][d] = objects[t][d] /\ objects[t][d] \in ObjectState /\ objects[t][d].buf \in BufIds
      BY <1>0, <1>5, <2>3, <3>1 DEF Installed, ObjectState
    <3>3. objects[t][d].buf # nb
      <4>1. CASE store[nb] = Freed
        BY <2>3, <3>1, <4>1, Zenon DEF IInv, BoundWhereItStarts
      <4>2. CASE \E e \in Address : /\ e[1] = p
                                    /\ objects[s][e] # NoObj
                                    /\ objects[s][e].buf = nb
                                    /\ IsOwnedByUs(s, objects[s][e])
        BY <1>0, <1>5, <2>3, <3>1, <4>2 DEF IInv, BufferSharing
      <4> QED BY <4>1, <4>2, Zenon DEF Install, PrivateBuffer
    <3>4. store'[objects[t][d].buf] = st[objects[t][d].buf]
      BY <1>3, <2>3, <3>1, <3>2
    <3> QED BY <3>1, <3>2, <3>3, <3>4, Zenon DEF Install
  <2> QED BY <1>1, <1>5, <2>2, <2>3, Zenon DEF MapByte
<1> QED BY <1>4, <1>5, Zenon

-------------------------------------------------------------------------------
(***************************************************************************)
(* One lemma per action: it preserves the invariant, and what the states   *)
(* read changes as IsolatedMemories says.                                  *)
(***************************************************************************)
LEMMA BindObjectStep ==
  ASSUME IInv, NEW s \in live, NEW p \in Pages, NEW v \in Values, NEW b \in Unallocated,
         BindObject(s, p, v, b)
  PROVE  IInv' /\ Isolated!Map(s, p, v)
<1> DEFINE o == [addr |-> Start(p), size |-> NPieces, owner |-> cowKey[s], buf |-> b]
           new == [c \in {Start(p)} |-> o]
           st == [store EXCEPT ![b] = [i \in Offsets |-> v]]
<1>1. s \in States /\ Start(p) \in Address /\ b \in BufIds /\ store[b] = Freed /\ o \in ObjectState
  BY OffsetsFact, Zenon DEF IInv, TypeOK, Unallocated, ObjectState
<1>2. NewObjects(s, p, new, b) /\ PrivateBuffer(s, p, b)
  BY <1>1, Zenon DEF NewObjects, PrivateBuffer, BindObject
<1>3. CacheUpdate(s, new)
  <2>1. cache' = [cache EXCEPT ![s] = [cache[s] EXCEPT ![Hash[Start(p)]] = o]]
    BY Zenon DEF BindObject, CacheAdd
  <2>2. Hash[Start(p)] \in Slots
    BY <1>1, ConstantAssumption, Zenon
  <2>3. cache' \in [States -> [Slots -> ObjectState \cup {NoObj}]]
    BY <1>1, <2>1, <2>2, Zenon DEF IInv, TypeOK
  <2>4. ASSUME NEW h \in Slots, cache'[s][h] # NoObj
        PROVE  \/ \E c \in DOMAIN new : cache'[s][h] = new[c] /\ Hash[c] = h
               \/ cache'[s][h] = cache[s][h] /\ cache[s][h].addr \notin DOMAIN new
    <3>1. CASE h = Hash[Start(p)]
      BY <1>1, <2>1, <2>2, <3>1, Zenon DEF IInv, TypeOK
    <3>2. CASE h # Hash[Start(p)]
      <4>1. cache'[s][h] = cache[s][h]
        BY <1>1, <2>1, <3>2, Zenon DEF IInv, TypeOK
      <4> QED BY <1>1, <2>4, <3>2, <4>1 DEF IInv, CacheExact
    <3> QED BY <3>1, <3>2, Zenon
  <2> QED BY <1>1, <2>1, <2>3, <2>4, Zenon DEF CacheUpdate, IInv, TypeOK
<1>4. objects' = [objects EXCEPT ![s] = Replace(objects[s], new)]
  <2>1. [objects[s] EXCEPT ![Start(p)] = o] = Replace(objects[s], new)
    BY <1>1, Zenon DEF Replace, IInv, TypeOK
  <2> QED BY <2>1, Zenon DEF BindObject
<1>5. Install(s, p, new, b, st)
  BY <1>1, <1>2, <1>3, <1>4, Zenon DEF Install, BindObject, IInv, TypeOK
<1>6. IInv'
  BY <1>1, <1>5, InstallIInv, Zenon
<1>7. \A t \in States, c \in Address :
        ReadByte(t, c)' = IF t = s /\ c[1] = p THEN v ELSE ReadByte(t, c)
  <2>1. \A c \in Address : st[b][c[2]] = v
    BY <1>1, Zenon DEF IInv, TypeOK, Address
  <2> HIDE DEF new, st
  <2> QED BY <1>1, <1>5, <2>1, InstallMemory
<1>8. memory' = [memory EXCEPT ![s] = [a \in Address |-> IF a[1] = p THEN v ELSE memory[s][a]]]
  BY <1>1, <1>7, Zenon DEF memory
<1> QED BY <1>6, <1>8, Zenon DEF Isolated!Map, Isolated!Address, Address, BindObject

\* Caching the object that findObject returns keeps the cache exact.
LEMMA CacheFoundStep ==
  ASSUME IInv, NEW s \in States, NEW a \in Address,
         cache' = [cache EXCEPT ![s] = CacheFound(s, a)], UNCHANGED <<objects, cowKey>>
  PROVE  /\ cache' \in [States -> [Slots -> ObjectState \cup {NoObj}]]
         /\ CacheExact'
         /\ \A t \in States \ {s} : cache'[t] = cache[t]
<1>1. FindObject(s, a) = Lookup(s, a)
  BY FindIsLookup, Zenon
<1>2. CASE Lookup(s, a) = NoObj
  <2>1. cache' = cache
    BY <1>1, <1>2, Zenon DEF CacheFound, IInv, TypeOK
  <2> QED BY <2>1 DEF IInv, TypeOK, CacheExact
<1>3. CASE Lookup(s, a) # NoObj
  <2> DEFINE found == Lookup(s, a)
  <2>1. found \in ObjectState /\ found.addr \in Address /\ objects[s][found.addr] = found
    BY <1>3, FindIsLookup, Zenon
  <2>2. Hash[found.addr] \in Slots
    BY <2>1, ConstantAssumption, Zenon
  <2>3. cache' = [cache EXCEPT ![s] = [cache[s] EXCEPT ![Hash[found.addr]] = found]]
    BY <1>1, <1>3, Zenon DEF CacheFound, CacheAdd
  <2> HIDE DEF found
  <2>4. /\ cache' \in [States -> [Slots -> ObjectState \cup {NoObj}]]
        /\ \A t \in States \ {s} : cache'[t] = cache[t]
        /\ \A h \in Slots : cache'[s][h] = IF h = Hash[found.addr] THEN found ELSE cache[s][h]
    <3>1. cache[s] \in [Slots -> ObjectState \cup {NoObj}] /\ cache \in [States -> [Slots -> ObjectState \cup {NoObj}]]
      BY Zenon DEF IInv, TypeOK
    <3> DEFINE line == [cache[s] EXCEPT ![Hash[found.addr]] = found]
    <3>2. /\ line \in [Slots -> ObjectState \cup {NoObj}]
          /\ \A h \in Slots : line[h] = IF h = Hash[found.addr] THEN found ELSE cache[s][h]
      BY <2>1, <2>2, <3>1, Zenon
    <3>3. cache' = [cache EXCEPT ![s] = line]
      BY <2>3, Zenon
    <3> HIDE DEF line
    <3> QED BY <3>1, <3>2, <3>3, Zenon
  <2>5. CacheExact'
    <3> SUFFICES ASSUME NEW t \in States, NEW h \in Slots, cache'[t][h] # NoObj
                 PROVE  objects'[t][cache'[t][h].addr] = cache'[t][h] /\ Hash[cache'[t][h].addr] = h
      BY Zenon DEF CacheExact
    <3>0. objects' = objects
      OBVIOUS
    <3>1. CASE t = s /\ h = Hash[found.addr]
      BY <2>1, <2>4, <3>0, <3>1, Zenon
    <3>2. CASE ~(t = s /\ h = Hash[found.addr])
      <4>1. cache'[t][h] = cache[t][h]
        BY <2>4, <3>2, Zenon
      <4> QED BY <3>0, <4>1 DEF IInv, CacheExact
    <3> QED BY <3>1, <3>2, Zenon
  <2> QED BY <2>4, <2>5, Zenon
<1> QED BY <1>2, <1>3, Zenon

LEMMA ReadStep ==
  ASSUME IInv, NEW s \in live, NEW a \in Address, Read(s, a)
  PROVE  IInv' /\ memory' = memory
<1>1. s \in States
  BY Zenon DEF IInv, TypeOK
<1>2. IInv'
  <2>1. CacheExact' /\ cache' \in [States -> [Slots -> ObjectState \cup {NoObj}]]
        /\ \A t \in States \ {s} : cache'[t] = cache[t]
    BY <1>1, CacheFoundStep, Zenon DEF Read
  <2>2. TypeOK'
    BY <2>1, Zenon DEF Read, IInv, TypeOK
  <2>3. DeadStatesHoldNothing'
    BY <1>1, <2>1, Zenon DEF Read, IInv, TypeOK, DeadStatesHoldNothing
  <2>4. BoundWhereItStarts' /\ PageShape'
    BY DEF Read, IInv, BoundWhereItStarts, PageShape
  <2>5. BufferSharing'
    BY DEF Read, IInv, BufferSharing, IsOwnedByUs
  <2> QED BY <2>1, <2>2, <2>3, <2>4, <2>5, Zenon DEF IInv
<1>3. \A t \in States, c \in Address : MapByte(t, c)' = MapByte(t, c)
  BY DEF Read, MapByte, Lookup
<1>4. \A t \in States, c \in Address : ReadByte(t, c)' = ReadByte(t, c)
  BY <1>2, <1>3, ReadIsMapRead, ReadIsMapReadNext, ZenonT(30) DEF ReadsFollowMap
<1> QED BY <1>2, <1>4, Zenon DEF memory

LEMMA WriteOwnedStep ==
  ASSUME IInv, NEW s \in live, NEW a \in Address, NEW v \in Values, WriteOwned(s, a, v)
  PROVE  IInv' /\ Isolated!Write(s, a, v)
<1> DEFINE o == Lookup(s, a)
<1>1. /\ s \in States /\ FindObject(s, a) = o /\ o \in ObjectState /\ o # NoObj
      /\ o.addr \in Address /\ objects[s][o.addr] = o /\ o.addr[1] = a[1] /\ IsOwnedByUs(s, o)
      /\ o.buf \in BufIds
  BY FindIsLookup, ConstantAssumption DEF IInv, TypeOK, WriteOwned, ObjectState
<1>2. store[o.buf] \in [Offsets -> Values] /\ a[2] \in Offsets /\ a = <<a[1], a[2]>>
  BY <1>1 DEF IInv, TypeOK, BoundWhereItStarts, Address
<1> DEFINE line == [store[o.buf] EXCEPT ![a[2]] = v]
<1>3. store' = [store EXCEPT ![o.buf] = line]
  BY <1>1, Zenon DEF WriteOwned
<1>4. line \in [Offsets -> Values] /\ line # Freed
  BY <1>2, ConstantAssumption, Zenon
<1>5. \A i \in Offsets : line[i] = IF i = a[2] THEN v ELSE store[o.buf][i]
  BY <1>2, Zenon
<1> HIDE DEF o, line
<1>6. /\ store' \in [BufIds -> [Offsets -> Values] \cup {Freed}]
      /\ \A b \in BufIds : store'[b] = IF b = o.buf THEN line ELSE store[b]
  BY <1>1, <1>3, <1>4, Zenon DEF IInv, TypeOK
<1>7. UNCHANGED <<live, cowKey, objects>>
  BY Zenon DEF WriteOwned
<1>8. CacheExact' /\ cache' \in [States -> [Slots -> ObjectState \cup {NoObj}]]
      /\ \A t \in States \ {s} : cache'[t] = cache[t]
  BY <1>1, CacheFoundStep, Zenon DEF WriteOwned
<1>9. BoundWhereItStarts'
  <2> SUFFICES ASSUME NEW t \in States, NEW c \in Address, objects[t][c] # NoObj
               PROVE  /\ objects[t][c].addr = c
                      /\ objects[t][c].owner <= cowKey[t]
                      /\ store'[objects[t][c].buf] # Freed
    BY <1>7, Zenon DEF BoundWhereItStarts
  <2>1. objects[t][c].buf \in BufIds
    BY DEF IInv, TypeOK, ObjectState
  <2> QED BY <1>4, <1>6, <2>1 DEF IInv, BoundWhereItStarts
<1>10. IInv'
  <2>1. TypeOK'
    BY <1>6, <1>7, <1>8, Zenon DEF IInv, TypeOK
  <2>2. DeadStatesHoldNothing'
    BY <1>7, <1>8, Zenon DEF IInv, DeadStatesHoldNothing
  <2>3. PageShape'
    BY <1>7, ZenonT(40) DEF IInv, PageShape
  <2>4. BufferSharing'
    BY <1>7 DEF IInv, BufferSharing, IsOwnedByUs
  <2> QED BY <1>8, <1>9, <2>1, <2>2, <2>3, <2>4, Zenon DEF IInv
<1>11. ASSUME NEW t \in States, NEW c \in Address
       PROVE  MapByte(t, c)' = IF t = s /\ c = a THEN v ELSE MapByte(t, c)
  <2>1. Lookup(t, c)' = Lookup(t, c)
    BY <1>7, Zenon DEF Lookup
  <2>2. c[2] \in Offsets /\ c = <<c[1], c[2]>>
    BY DEF Address
  <2>3. CASE t = s /\ c = a
    BY <1>1, <1>2, <1>5, <1>6, <2>1, <2>3 DEF MapByte, o
  <2>4. CASE ~(t = s /\ c = a) /\ Lookup(t, c) # NoObj
    <3> DEFINE u == Lookup(t, c)
    <3>1. u \in ObjectState /\ u.addr \in Address /\ objects[t][u.addr] = u /\ u.addr[1] = c[1] /\ u.buf \in BufIds
      BY <2>4, FindIsLookup, Zenon DEF ObjectState
    <3>2. u.buf = o.buf => t = s /\ c[1] = a[1]
      BY <1>1, <2>4, <3>1 DEF IInv, BufferSharing
    <3>3. u.buf = o.buf => c[2] # a[2]
      BY <1>2, <2>2, <2>4, <3>2, Zenon
    <3>4. store'[u.buf][c[2]] = store[u.buf][c[2]]
      BY <1>5, <1>6, <2>2, <3>1, <3>3
    <3> QED BY <2>1, <2>4, <3>4, Zenon DEF MapByte
  <2>5. CASE ~(t = s /\ c = a) /\ Lookup(t, c) = NoObj
    BY <2>1, <2>5, Zenon DEF MapByte
  <2> QED BY <2>3, <2>4, <2>5, Zenon
<1>12. \A t \in States, c \in Address : ReadByte(t, c)' = IF t = s /\ c = a THEN v ELSE ReadByte(t, c)
  BY <1>10, <1>11, ReadIsMapRead, ReadIsMapReadNext, ZenonT(30) DEF ReadsFollowMap
<1>13. memory' = [memory EXCEPT ![s] = [memory[s] EXCEPT ![a] = v]]
  BY <1>1, <1>12, ZenonT(30) DEF memory
<1>14. memory[s][a] # Unmapped
  <2>1. store[o.buf][a[2]] \in Values
    BY <1>2, Zenon
  <2>2. ReadByte(s, a) = store[o.buf][a[2]]
    BY <1>1, Zenon DEF ReadByte
  <2> QED BY <1>1, <2>1, <2>2, ConstantAssumption, Zenon DEF memory
<1> QED BY <1>7, <1>10, <1>13, <1>14, Zenon DEF Isolated!Write

\* Adding the objects of a page to the cache in address order leaves each slot
\* with one of the added objects that hash to it, or as it was.
LEMMA CacheAddAllFact ==
  ASSUME NEW p \in Pages, NEW c, NEW new, DOMAIN new \subseteq Page(p), NEW h \in Slots
  PROVE  \/ \E a \in DOMAIN new : Hash[a] = h /\ CacheAddAll(c, new)[h] = new[a]
         \/ /\ \A a \in DOMAIN new : Hash[a] # h
            /\ CacheAddAll(c, new)[h] = c[h]
<1> DEFINE added == {a \in DOMAIN new : Hash[a] = h}
<1>1. CASE added = {}
  BY <1>1, Zenon DEF CacheAddAll
<1>2. CASE added # {}
  <2> DEFINE S == {a[2] : a \in added}
  <2>1. \A a \in added : a = <<p, a[2]>> /\ a[2] \in Offsets
    BY DEF Page
  <2>2. NPieces - 1 \in Nat /\ S \in SUBSET (0 .. NPieces - 1) /\ S # {}
    BY <1>2, <2>1, ConstantAssumption DEF Offsets
  <2>3. PICK x \in S : \A y \in S : y <= x
    BY <2>2, LargestExists, Zenon
  <2>4. PICK a \in added : x = a[2]
    BY <2>3, Zenon
  <2>5. \A b \in added : b[2] <= a[2]
    BY <2>3, <2>4, Zenon
  <2> DEFINE last == CHOOSE d \in added : \A b \in added : b[2] <= d[2]
  <2>6. last \in added
    BY <2>5, Zenon
  <2>7. CacheAddAll(c, new)[h] = new[last]
    BY <1>2, Zenon DEF CacheAddAll
  <2> HIDE DEF last
  <2> QED BY <2>6, <2>7, Zenon
<1> QED BY <1>1, <1>2, Zenon

\* The object found at an address is bound at the start of the page if it is the
\* whole page; otherwise the page is bound as pieces that share its buffer.
LEMMA FoundShape ==
  ASSUME IInv, NEW s \in States, NEW a \in Address, Lookup(s, a) # NoObj
  PROVE  LET o == Lookup(s, a) IN
         \/ /\ o.size = NPieces
            /\ o.addr = Start(a[1])
            /\ \A i \in Offsets \ {0} : objects[s][<<a[1], i>>] = NoObj
            /\ \A c \in Address : c[1] = a[1] => Lookup(s, c) = o
         \/ /\ o.size = 1
            /\ \A c \in Address : c[1] = a[1] =>
                 /\ Lookup(s, c) = objects[s][c]
                 /\ objects[s][c] # NoObj
                 /\ objects[s][c].size = 1
                 /\ objects[s][c].buf = o.buf
                 /\ objects[s][c].owner = o.owner
<1> DEFINE base == objects[s][Start(a[1])]
           o == Lookup(s, a)
<1>1. a[1] \in Pages /\ a[2] \in Offsets /\ a = <<a[1], a[2]>> /\ Start(a[1]) \in Address /\ Start(a[1]) = <<a[1], 0>>
  BY OffsetsFact DEF Address, Start
<1>2. \A c \in Address : c[2] \in Offsets /\ c = <<c[1], c[2]>>
  BY DEF Address
<1>3. NPieces # 1 /\ 0 \in Offsets
  BY ConstantAssumption, OffsetsFact
<1>4. CASE base = NoObj \/ base.size = NPieces
  <2>1. \A i \in Offsets \ {0} : objects[s][<<a[1], i>>] = NoObj
    BY <1>1, <1>4, Zenon DEF IInv, PageShape
  <2>2. \A c \in Address : c[1] = a[1] => objects[s][c] = NoObj \/ c = Start(a[1])
    BY <1>1, <1>2, <2>1
  <2>3. o = base /\ base # NoObj /\ base.size = NPieces
    BY <1>1, <1>4, <2>2, Zenon DEF Lookup
  <2>4. \A c \in Address : c[1] = a[1] => Lookup(s, c) = base
    BY <1>1, <2>2, <2>3, Zenon DEF Lookup
  <2>5. base.addr = Start(a[1])
    BY <1>1, <2>3, Zenon DEF IInv, BoundWhereItStarts
  <2> QED BY <2>1, <2>3, <2>4, <2>5, Zenon
<1>5. CASE ~(base = NoObj \/ base.size = NPieces)
  <2>1. \A c \in Address : c[1] = a[1] =>
          /\ objects[s][c] # NoObj
          /\ objects[s][c].size = 1
          /\ objects[s][c].buf = base.buf
          /\ objects[s][c].owner = base.owner
    BY <1>1, <1>2, <1>5 DEF IInv, PageShape
  <2>2. \A c \in Address : c[1] = a[1] => Lookup(s, c) = objects[s][c]
    BY <2>1, Zenon DEF Lookup
  <2> QED BY <1>1, <2>1, <2>2, ZenonT(30)
<1> QED BY <1>4, <1>5, Zenon

\* The map and the cache of s once all of new was bound and cached, as in
\* getWriteable and splitMemoryObject.
LEMMA AddAllIsCacheUpdate ==
  ASSUME IInv, NEW s \in States, NEW p \in Pages, NEW new, NEW c \in [Slots -> ObjectState \cup {NoObj}],
         DOMAIN new \subseteq Page(p),
         \A a \in DOMAIN new : new[a] \in ObjectState,
         \A h \in Slots : c[h] # NoObj => c[h] = cache[s][h],
         cache' = [cache EXCEPT ![s] = CacheAddAll(c, new)]
  PROVE  CacheUpdate(s, new)
<1>1. \A h \in Slots :
        \/ \E a \in DOMAIN new : Hash[a] = h /\ CacheAddAll(c, new)[h] = new[a]
        \/ /\ \A a \in DOMAIN new : Hash[a] # h
           /\ CacheAddAll(c, new)[h] = c[h]
  BY CacheAddAllFact
<1> DEFINE after == CacheAddAll(c, new)
<1>2. after = [h \in Slots |-> after[h]]
  BY DEF CacheAddAll
<1> HIDE DEF after
<1>3. \A h \in Slots : after[h] \in ObjectState \cup {NoObj}
  BY <1>1, Zenon DEF after
<1>4. after \in [Slots -> ObjectState \cup {NoObj}]
  BY <1>2, <1>3, Zenon
<1>5. cache' = [cache EXCEPT ![s] = after]
  BY Zenon DEF after
<1>6. /\ cache' \in [States -> [Slots -> ObjectState \cup {NoObj}]]
      /\ \A t \in States \ {s} : cache'[t] = cache[t]
      /\ cache'[s] = after
  BY <1>4, <1>5, ZenonT(30) DEF IInv, TypeOK
<1>7. ASSUME NEW h \in Slots, after[h] # NoObj
      PROVE  \/ \E a \in DOMAIN new : after[h] = new[a] /\ Hash[a] = h
             \/ after[h] = cache[s][h] /\ cache[s][h].addr \notin DOMAIN new
  <2>1. CASE \E a \in DOMAIN new : Hash[a] = h /\ after[h] = new[a]
    BY <2>1, Zenon
  <2>2. CASE (\A a \in DOMAIN new : Hash[a] # h) /\ after[h] = c[h]
    <3>1. after[h] = cache[s][h] /\ cache[s][h] # NoObj
      BY <1>7, <2>2, Zenon
    <3>2. Hash[cache[s][h].addr] = h
      BY <3>1, Zenon DEF IInv, CacheExact
    <3> QED BY <2>2, <3>1, <3>2, Zenon
  <2> QED BY <1>1, <2>1, <2>2, Zenon DEF after
<1> QED BY <1>6, <1>7, Zenon DEF CacheUpdate

-------------------------------------------------------------------------------
(* The steps that replace several objects, and the theorems. *)

LEMMA WriteSharedStep ==
  ASSUME IInv, NEW s \in live, NEW a \in Address, NEW v \in Values, NEW b \in Unallocated,
         WriteShared(s, a, v, b)
  PROVE  IInv' /\ Isolated!Write(s, a, v)
<1> DEFINE o == Lookup(s, a)
           p == a[1]
           new == [c \in CopySet(o) |-> [FindObject(s, c) EXCEPT !.owner = cowKey[s], !.buf = b]]
           line == [store[o.buf] EXCEPT ![a[2]] = v]
           st == [store EXCEPT ![b] = line]
<1>1. /\ s \in States /\ FindObject(s, a) = o /\ o \in ObjectState /\ o # NoObj
      /\ o.addr \in Address /\ objects[s][o.addr] = o /\ o.addr[1] = p /\ o.buf \in BufIds
      /\ b \in BufIds /\ store[b] = Freed
  BY FindIsLookup, ConstantAssumption, ZenonT(40) DEF IInv, TypeOK, WriteShared, ObjectState, Unallocated
<1>2. store[o.buf] \in [Offsets -> Values] /\ a[2] \in Offsets /\ a = <<p, a[2]>> /\ p \in Pages
  BY <1>1 DEF IInv, TypeOK, BoundWhereItStarts, Address
<1>3. /\ cache' = [cache EXCEPT ![s] = CacheAddAll(cache[s], new)]
      /\ objects' = [objects EXCEPT ![s] = Replace(objects[s], new)]
      /\ Collect(st)
      /\ UNCHANGED <<live, cowKey>>
  BY <1>1, Zenon DEF WriteShared
<1>4. line \in [Offsets -> Values] /\ \A i \in Offsets : line[i] = IF i = a[2] THEN v ELSE store[o.buf][i]
  BY <1>2, Zenon
<1> HIDE DEF line
<1>5. st[b] = line /\ \A d \in BufIds \ {b} : st[d] = store[d]
  BY <1>1, ZenonT(30) DEF IInv, TypeOK
<1> HIDE DEF st
\* The two shapes of a page: one object, or all of its pieces.
<1>6. /\ \/ /\ CopySet(o) = {Start(p)}
            /\ \A c \in CopySet(o) : FindObject(s, c).size = NPieces
            /\ \A i \in Offsets \ {0} : objects[s][<<p, i>>] = NoObj
         \/ /\ CopySet(o) = Page(p)
            /\ \A c \in CopySet(o) : FindObject(s, c).size = 1
      /\ \A c \in CopySet(o) : FindObject(s, c) \in ObjectState /\ FindObject(s, c).addr = c
      /\ \A c \in Address : c[1] = p => Lookup(s, c) # NoObj /\ Lookup(s, c).buf = o.buf
  <2>1. CASE /\ o.size = NPieces
             /\ o.addr = Start(p)
             /\ \A i \in Offsets \ {0} : objects[s][<<p, i>>] = NoObj
             /\ \A c \in Address : c[1] = p => Lookup(s, c) = o
    <3>1. CopySet(o) = {Start(p)}
      BY <2>1, Zenon DEF CopySet
    <3>2. FindObject(s, Start(p)) = o
      BY <1>1, <2>1, FindIsLookup
    <3> QED BY <1>1, <2>1, <3>1, <3>2, Zenon
  <2>2. CASE /\ o.size = 1
             /\ \A c \in Address : c[1] = p =>
                  /\ Lookup(s, c) = objects[s][c]
                  /\ objects[s][c] # NoObj
                  /\ objects[s][c].size = 1
                  /\ objects[s][c].buf = o.buf
                  /\ objects[s][c].owner = o.owner
    <3>1. CopySet(o) = Page(p)
      BY <1>1, <2>2, ConstantAssumption DEF CopySet
    <3>2. \A c \in Page(p) : c \in Address /\ c[1] = p
      BY <1>2, ZenonT(30) DEF Page, Address
    <3>3. \A c \in Page(p) : FindObject(s, c) = objects[s][c] /\ objects[s][c] \in ObjectState /\ objects[s][c].addr = c
      BY <1>1, <2>2, <3>2, FindIsLookup DEF IInv, BoundWhereItStarts
    <3> QED BY <2>2, <3>1, <3>2, <3>3
  <2> QED BY <1>1, <2>1, <2>2, FoundShape
<1> HIDE DEF o
<1>7. \A c \in CopySet(o) :
        /\ new[c] \in ObjectState
        /\ new[c].addr = c
        /\ new[c].size = FindObject(s, c).size
        /\ new[c].owner = cowKey[s]
        /\ new[c].buf = b
  <2>1. cowKey[s] \in Nat
    BY <1>1, Zenon DEF IInv, TypeOK
  <2> QED BY <1>1, <1>6, <2>1, ZenonT(30) DEF ObjectState
<1>8. DOMAIN new = CopySet(o)
  OBVIOUS
<1> HIDE DEF new, p
<1>9. NewObjects(s, p, new, b)
  BY <1>6, <1>7, <1>8 DEF NewObjects
<1>10. CacheUpdate(s, new)
  <2>1. DOMAIN new \subseteq Page(p)
    BY <1>6, <1>8, OffsetsFact DEF Page, Start
  <2>2. cache[s] \in [Slots -> ObjectState \cup {NoObj}]
    BY <1>1, Zenon DEF IInv, TypeOK
  <2> QED BY <1>1, <1>2, <1>3, <1>7, <1>8, <2>1, <2>2, AddAllIsCacheUpdate, Zenon
<1>11. PrivateBuffer(s, p, b)
  BY <1>1, Zenon DEF PrivateBuffer
<1>12. Install(s, p, new, b, st)
  BY <1>3, <1>4, <1>5, <1>9, <1>10, <1>11, Zenon DEF Install
<1>13. IInv'
  BY <1>1, <1>2, <1>12, InstallIInv, ZenonT(30)
<1>14. \A c \in Address : c[1] = p => ReadByte(s, c) = store[o.buf][c[2]]
  BY <1>1, <1>6, FindIsLookup DEF ReadByte
<1>15. ASSUME NEW t \in States, NEW c \in Address
       PROVE  ReadByte(t, c)' = IF t = s /\ c = a THEN v ELSE ReadByte(t, c)
  <2>1. ReadByte(t, c)' = IF t = s /\ c[1] = p THEN line[c[2]] ELSE ReadByte(t, c)
    BY <1>1, <1>2, <1>5, <1>12, InstallMemory
  <2>2. c = <<c[1], c[2]>> /\ c[2] \in Offsets
    BY DEF Address
  <2>3. a[1] = p
    BY Zenon DEF p
  <2> QED BY <1>2, <1>4, <1>14, <2>1, <2>2, <2>3, ZenonT(30)
<1>16. memory' = [memory EXCEPT ![s] = [memory[s] EXCEPT ![a] = v]]
  BY <1>1, <1>15, Zenon DEF memory
<1>17. memory[s][a] # Unmapped
  <2>1. memory[s][a] = store[o.buf][a[2]]
    BY <1>1, <1>14, Zenon DEF memory, p
  <2>2. store[o.buf][a[2]] \in Values
    BY <1>2, Zenon
  <2> QED BY <2>1, <2>2, ConstantAssumption, Zenon
<1> QED BY <1>3, <1>13, <1>16, <1>17, Zenon DEF Isolated!Write

\* splitMemoryObject changes which objects back the page, not what it reads.
LEMMA SplitMemoryObjectStep ==
  ASSUME IInv, NEW s \in live, NEW p \in Pages, NEW b \in BufIds, SplitMemoryObject(s, p, b)
  PROVE  IInv' /\ memory' = memory /\ live' = live
<1> DEFINE o == Lookup(s, Start(p))
           nb == IF IsOwnedByUs(s, o) THEN o.buf ELSE b
           new == [c \in Page(p) |-> [addr |-> c, size |-> 1, owner |-> cowKey[s], buf |-> nb]]
           inv == CacheInvalidate(cache[s], Start(p))
           st == [store EXCEPT ![nb] = store[o.buf]]
<1>0. Start(p) \in Address /\ Start(p)[1] = p
  BY OffsetsFact, Zenon DEF Start
<1>1. /\ s \in States /\ FindObject(s, Start(p)) = o /\ o \in ObjectState /\ o # NoObj
      /\ o.addr \in Address /\ objects[s][o.addr] = o /\ o.addr[1] = p /\ o.buf \in BufIds
      /\ o.size = NPieces /\ nb \in BufIds
      /\ IsOwnedByUs(s, o) \/ b \in Unallocated
  BY <1>0, FindIsLookup, ConstantAssumption, ZenonT(30) DEF IInv, TypeOK, SplitMemoryObject, ObjectState
<1>2. store[o.buf] \in [Offsets -> Values]
  BY <1>1 DEF IInv, TypeOK, BoundWhereItStarts
<1>3. /\ cache' = [cache EXCEPT ![s] = CacheAddAll(inv, new)]
      /\ objects' = [objects EXCEPT ![s] = Replace(objects[s], new)]
      /\ Collect(st)
      /\ UNCHANGED <<live, cowKey>>
  BY <1>1, Zenon DEF SplitMemoryObject
<1>4. PrivateBuffer(s, p, nb)
  BY <1>1, Zenon DEF PrivateBuffer, Unallocated
<1> HIDE DEF o, nb
<1>5. st[nb] = store[o.buf] /\ \A d \in BufIds \ {nb} : st[d] = store[d]
  BY <1>1, Zenon DEF IInv, TypeOK
<1> HIDE DEF st
<1>6. \A c \in Page(p) :
        /\ new[c] \in ObjectState
        /\ new[c].addr = c
        /\ new[c].size = 1
        /\ new[c].owner = cowKey[s]
        /\ new[c].buf = nb
  <2>1. cowKey[s] \in Nat
    BY <1>1, Zenon DEF IInv, TypeOK
  <2>2. \A c \in Page(p) : c \in Address
    BY Zenon DEF Page, Address
  <2> QED BY <1>1, <2>1, <2>2, Zenon DEF ObjectState
<1>7. DOMAIN new = Page(p)
  OBVIOUS
<1> HIDE DEF new
<1>8. NewObjects(s, p, new, nb)
  BY <1>6, <1>7, Zenon DEF NewObjects
<1>9. CacheUpdate(s, new)
  <2>1. Hash[Start(p)] \in Slots /\ cache[s] \in [Slots -> ObjectState \cup {NoObj}]
    BY <1>0, <1>1, ConstantAssumption, Zenon DEF IInv, TypeOK
  <2>2. /\ inv \in [Slots -> ObjectState \cup {NoObj}]
        /\ \A h \in Slots : inv[h] # NoObj => inv[h] = cache[s][h]
    BY <2>1, Zenon DEF CacheInvalidate
  <2> HIDE DEF inv
  <2> QED BY <1>1, <1>3, <1>6, <1>7, <2>2, AddAllIsCacheUpdate, ZenonT(40)
<1>10. Install(s, p, new, nb, st)
  BY <1>2, <1>3, <1>4, <1>5, <1>8, <1>9, Zenon DEF Install
<1>11. IInv'
  BY <1>1, <1>10, InstallIInv, Zenon
<1>12. \A c \in Address : c[1] = p => ReadByte(s, c) = store[o.buf][c[2]]
  <2>1. \A c \in Address : c[1] = p => Lookup(s, c) = o
    BY <1>0, <1>1, ConstantAssumption, FoundShape DEF o
  <2> QED BY <1>1, <2>1, FindIsLookup DEF ReadByte
<1>13. ASSUME NEW t \in States, NEW c \in Address
       PROVE  ReadByte(t, c)' = ReadByte(t, c)
  <2>1. ReadByte(t, c)' = IF t = s /\ c[1] = p THEN st[nb][c[2]] ELSE ReadByte(t, c)
    BY <1>1, <1>10, InstallMemory
  <2> QED BY <1>5, <1>12, <2>1, SMTT(40)
<1> QED BY <1>3, <1>11, <1>13, Zenon DEF memory

\* What a step that only drops references does to the buffers: the ones still
\* bound keep their contents.
LEMMA CollectKeepsBound ==
  ASSUME IInv, Collect(store), objects' \in [States -> [Address -> ObjectState \cup {NoObj}]]
  PROVE  /\ store' \in [BufIds -> [Offsets -> Values] \cup {Freed}]
         /\ \A t \in States, c \in Address :
              objects'[t][c] # NoObj =>
                /\ objects'[t][c].buf \in BufIds
                /\ store'[objects'[t][c].buf] = store[objects'[t][c].buf]
<1>1. store' = [b \in BufIds |-> IF Referenced(b)' THEN store[b] ELSE Freed]
  BY Zenon DEF Collect
<1>2. store' \in [BufIds -> [Offsets -> Values] \cup {Freed}]
  BY <1>1, Zenon DEF IInv, TypeOK
<1>3. ASSUME NEW t \in States, NEW c \in Address, objects'[t][c] # NoObj
      PROVE  objects'[t][c].buf \in BufIds
  BY <1>3, Zenon DEF ObjectState
<1>4. ASSUME NEW t \in States, NEW c \in Address, NEW b \in BufIds,
             objects'[t][c] # NoObj, objects'[t][c].buf = b
      PROVE  store'[b] = store[b]
  <2>1. Referenced(b)'
    BY <1>4, Zenon DEF Referenced
  <2> QED BY <2>1, <1>1, Zenon
<1> QED BY <1>2, <1>3, <1>4, Zenon

LEMMA UnbindObjectStep ==
  ASSUME IInv, NEW s \in live, NEW p \in Pages, UnbindObject(s, p)
  PROVE  IInv' /\ Isolated!Map(s, p, Unmapped)
<1> DEFINE line == [objects[s] EXCEPT ![Start(p)] = NoObj]
           cl == CacheInvalidate(cache[s], Start(p))
<1>0. s \in States /\ Start(p) \in Address /\ Start(p)[1] = p /\ p \in Pages /\ Hash[Start(p)] \in Slots
  BY OffsetsFact, ConstantAssumption, Zenon DEF Start, IInv, TypeOK
<1>1. /\ objects' = [objects EXCEPT ![s] = line]
      /\ cache' = [cache EXCEPT ![s] = cl]
      /\ Collect(store)
      /\ UNCHANGED <<live, cowKey>>
  BY Zenon DEF UnbindObject
<1>2. \A i \in Offsets \ {0} : objects[s][<<p, i>>] = NoObj
  <2>1. /\ Lookup(s, Start(p)) # NoObj
        /\ Lookup(s, Start(p)).size = NPieces
    BY <1>0, FindIsLookup, Zenon DEF UnbindObject
  <2>2. NPieces # 1
    BY ConstantAssumption
  <2> QED BY <1>0, <2>1, <2>2, FoundShape
<1>3. /\ line \in [Address -> ObjectState \cup {NoObj}]
      /\ \A c \in Address : line[c] = IF c = Start(p) THEN NoObj ELSE objects[s][c]
  BY <1>0, Zenon DEF IInv, TypeOK
<1>4. /\ cl \in [Slots -> ObjectState \cup {NoObj}]
      /\ \A h \in Slots : cl[h] # NoObj => cl[h] = cache[s][h] /\ h # Hash[Start(p)]
  BY <1>0, Zenon DEF IInv, TypeOK, CacheInvalidate
<1> HIDE DEF line, cl
<1>5. /\ objects' \in [States -> [Address -> ObjectState \cup {NoObj}]]
      /\ \A t \in States, c \in Address :
           objects'[t][c] = IF t = s /\ c = Start(p) THEN NoObj ELSE objects[t][c]
      /\ \A t \in States \ {s} : objects'[t] = objects[t]
  BY <1>0, <1>1, <1>3, Zenon DEF IInv, TypeOK
<1>6. /\ cache' \in [States -> [Slots -> ObjectState \cup {NoObj}]]
      /\ \A t \in States \ {s} : cache'[t] = cache[t]
      /\ cache'[s] = cl
  BY <1>0, <1>1, <1>4, Zenon DEF IInv, TypeOK
<1>7. /\ store' \in [BufIds -> [Offsets -> Values] \cup {Freed}]
      /\ \A t \in States, c \in Address :
           objects'[t][c] # NoObj =>
             /\ objects'[t][c].buf \in BufIds
             /\ store'[objects'[t][c].buf] = store[objects'[t][c].buf]
  BY <1>1, <1>5, CollectKeepsBound, Zenon
<1>8. \A t \in States, c \in Address : c[1] = p /\ t = s => objects'[t][c] = NoObj
  <2>1. \A c \in Address : c = <<c[1], c[2]>> /\ c[2] \in Offsets
    BY DEF Address
  <2> QED BY <1>2, <1>5, <2>1 DEF Start
<1>9. TypeOK'
  BY <1>1, <1>5, <1>6, <1>7, Zenon DEF IInv, TypeOK
<1>10. DeadStatesHoldNothing'
  BY <1>0, <1>1, <1>5, <1>6, ZenonT(30) DEF IInv, DeadStatesHoldNothing
<1>11. BoundWhereItStarts'
  <2> SUFFICES ASSUME NEW t \in States, NEW c \in Address, objects'[t][c] # NoObj
               PROVE  /\ objects'[t][c].addr = c
                      /\ objects'[t][c].owner <= cowKey[t]
                      /\ store'[objects'[t][c].buf] # Freed
    BY <1>1, Zenon DEF BoundWhereItStarts
  <2>1. objects'[t][c] = objects[t][c]
    BY <1>5, Zenon
  <2> QED BY <1>7, <2>1 DEF IInv, BoundWhereItStarts
<1>12. PageShape'
  <2> SUFFICES ASSUME NEW t \in States, NEW q \in Pages, NEW i \in Offsets
               PROVE  LET base == objects'[t][Start(q)]
                          o == objects'[t][<<q, i>>]
                      IN  IF base = NoObj \/ base.size = NPieces
                          THEN i # 0 => o = NoObj
                          ELSE o # NoObj /\ o.size = 1 /\ o.buf = base.buf /\ o.owner = base.owner
    BY Zenon DEF PageShape
  <2>0. Start(q) \in Address /\ <<q, i>> \in Address /\ Start(q)[1] = q /\ <<q, i>>[1] = q
    BY OffsetsFact, Zenon DEF Address, Start
  <2>1. CASE t = s /\ q = p
    BY <1>8, <2>0, <2>1, ZenonT(30)
  <2>2. CASE ~(t = s /\ q = p)
    <3>1. objects'[t][Start(q)] = objects[t][Start(q)] /\ objects'[t][<<q, i>>] = objects[t][<<q, i>>]
      BY <1>0, <1>5, <2>0, <2>2, Zenon
    <3> QED BY <3>1 DEF IInv, PageShape
  <2> QED BY <2>1, <2>2, Zenon
<1>13. BufferSharing'
  BY <1>1, <1>5 DEF IInv, BufferSharing, IsOwnedByUs
<1>14. CacheExact'
  <2> SUFFICES ASSUME NEW t \in States, NEW h \in Slots, cache'[t][h] # NoObj
               PROVE  objects'[t][cache'[t][h].addr] = cache'[t][h] /\ Hash[cache'[t][h].addr] = h
    BY Zenon DEF CacheExact
  <2>1. cache'[t][h] = cache[t][h] /\ (t = s => h # Hash[Start(p)])
    BY <1>4, <1>6, Zenon
  <2>2. objects[t][cache[t][h].addr] = cache[t][h] /\ Hash[cache[t][h].addr] = h /\ cache[t][h].addr \in Address
    BY <2>1 DEF IInv, CacheExact, TypeOK, ObjectState
  <2> QED BY <1>5, <2>1, <2>2, ZenonT(30)
<1>15. IInv'
  BY <1>9, <1>10, <1>11, <1>12, <1>13, <1>14, Zenon DEF IInv
<1>16. ASSUME NEW t \in States, NEW c \in Address
       PROVE  MapByte(t, c)' = IF t = s /\ c[1] = p THEN Unmapped ELSE MapByte(t, c)
  <2>0. Start(c[1]) \in Address /\ Start(c[1])[1] = c[1] /\ c[1] \in Pages
    BY OffsetsFact, Zenon DEF Address, Start
  <2>1. CASE t = s /\ c[1] = p
    <3>1. Lookup(t, c)' = NoObj
      BY <1>8, <2>0, <2>1, Zenon DEF Lookup
    <3> QED BY <2>1, <3>1, Zenon DEF MapByte
  <2>2. CASE ~(t = s /\ c[1] = p)
    <3>1. objects'[t][c] = objects[t][c] /\ objects'[t][Start(c[1])] = objects[t][Start(c[1])]
      BY <1>0, <1>5, <2>0, <2>2, Zenon
    <3>2. Lookup(t, c)' = Lookup(t, c)
      BY <3>1, ZenonT(30) DEF Lookup
    <3>3. ASSUME Lookup(t, c) # NoObj
          PROVE  store'[Lookup(t, c).buf] = store[Lookup(t, c).buf]
      <4>1. Lookup(t, c).addr \in Address /\ Lookup(t, c).addr[1] = c[1]
            /\ objects[t][Lookup(t, c).addr] = Lookup(t, c)
        BY <3>3, FindIsLookup, Zenon
      <4>2. objects'[t][Lookup(t, c).addr] = Lookup(t, c)
        BY <1>0, <1>5, <2>2, <4>1, Zenon
      <4> QED BY <1>7, <3>3, <4>1, <4>2
    <3> QED BY <2>2, <3>2, <3>3, Zenon DEF MapByte
  <2> QED BY <2>1, <2>2, Zenon
<1>17. \A t \in States, c \in Address :
         ReadByte(t, c)' = IF t = s /\ c[1] = p THEN Unmapped ELSE ReadByte(t, c)
  BY <1>15, <1>16, ReadIsMapRead, ReadIsMapReadNext DEF ReadsFollowMap
<1>18. memory' = [memory EXCEPT ![s] = [a \in Address |-> IF a[1] = p THEN Unmapped ELSE memory[s][a]]]
  BY <1>0, <1>17, Zenon DEF memory
<1> QED BY <1>1, <1>15, <1>18, Zenon DEF Isolated!Map, Isolated!Address, Address

\* A fork starts a new epoch in both states, so neither owns anything it shares.
LEMMA ForkStep ==
  ASSUME IInv, NEW s \in live, NEW t \in States \ live, Fork(s, t)
  PROVE  IInv' /\ Isolated!Fork(s, t)
<1> DEFINE src(r) == IF r = t THEN s ELSE r
<1>0. s \in States /\ t \in States /\ s # t /\ live \subseteq States
  BY Zenon DEF IInv, TypeOK
<1>1. /\ live' = live \cup {t}
      /\ store' = store
      /\ objects' = [objects EXCEPT ![t] = objects[s]]
      /\ cache' = [cache EXCEPT ![t] = EmptyCache]
      /\ cowKey' = [cowKey EXCEPT ![s] = cowKey[s] + 1, ![t] = cowKey[s] + 1]
  BY Zenon DEF Fork
<1>2. /\ cowKey' \in [States -> Nat]
      /\ cowKey[s] \in Nat
      /\ cowKey'[s] = cowKey[s] + 1
      /\ cowKey'[t] = cowKey[s] + 1
      /\ \A r \in States \ {s, t} : cowKey'[r] = cowKey[r]
  <2> DEFINE half == [cowKey EXCEPT ![s] = cowKey[s] + 1]
  <2>1. cowKey \in [States -> Nat] /\ cowKey[s] \in Nat /\ cowKey[s] + 1 \in Nat
    BY <1>0 DEF IInv, TypeOK
  <2>2. /\ half \in [States -> Nat]
        /\ half[s] = cowKey[s] + 1
        /\ \A r \in States \ {s} : half[r] = cowKey[r]
    BY <1>0, <2>1, Zenon
  <2>3. cowKey' = [half EXCEPT ![t] = cowKey[s] + 1]
    BY <1>1, Zenon
  <2> HIDE DEF half
  <2> QED BY <1>0, <2>1, <2>2, <2>3, Zenon
<1>3. /\ objects' \in [States -> [Address -> ObjectState \cup {NoObj}]]
      /\ \A r \in States : src(r) \in States /\ objects'[r] = objects[src(r)]
  BY <1>0, <1>1, Zenon DEF IInv, TypeOK
<1>4. /\ cache' \in [States -> [Slots -> ObjectState \cup {NoObj}]]
      /\ cache'[t] = EmptyCache
      /\ \A r \in States \ {t} : cache'[r] = cache[r]
  <2>1. EmptyCache \in [Slots -> ObjectState \cup {NoObj}]
    BY Zenon DEF EmptyCache
  <2> QED BY <1>0, <1>1, <2>1, Zenon DEF IInv, TypeOK
<1>5. TypeOK'
  BY <1>0, <1>1, <1>2, <1>3, <1>4, Zenon DEF IInv, TypeOK
<1>6. DeadStatesHoldNothing'
  BY <1>0, <1>1, <1>3, <1>4, Zenon DEF IInv, DeadStatesHoldNothing
<1>7. ASSUME NEW r \in States, NEW c \in Address, objects'[r][c] # NoObj
      PROVE  /\ objects[src(r)][c] # NoObj
             /\ objects'[r][c] = objects[src(r)][c]
             /\ objects'[r][c].addr = c
             /\ objects'[r][c].owner <= cowKey'[r]
             /\ objects'[r][c].owner = cowKey'[r] => r \notin {s, t} /\ objects'[r][c].owner = cowKey[r]
             /\ store[objects'[r][c].buf] # Freed
  <2>1. objects'[r][c] = objects[src(r)][c] /\ src(r) \in States
    BY <1>3, Zenon
  <2>2. objects[src(r)][c] \in ObjectState
    BY <1>3, <1>7, <2>1
  <2>3. objects[src(r)][c].owner \in Nat /\ cowKey[src(r)] \in Nat
    BY <2>1, <2>2, Zenon DEF ObjectState, IInv, TypeOK
  <2>4. /\ objects[src(r)][c].addr = c
        /\ objects[src(r)][c].owner <= cowKey[src(r)]
        /\ store[objects[src(r)][c].buf] # Freed
    BY <1>7, <2>1 DEF IInv, BoundWhereItStarts
  <2>5. CASE r \in {s, t}
    <3>1. cowKey'[r] = cowKey[src(r)] + 1
      BY <1>0, <1>2, <2>5, Zenon
    <3> QED BY <1>7, <2>1, <2>3, <2>4, <3>1
  <2>6. CASE r \notin {s, t}
    <3>1. cowKey'[r] = cowKey[r] /\ src(r) = r
      BY <1>2, <2>6, Zenon
    <3> QED BY <1>7, <2>1, <2>4, <2>6, <3>1, Zenon
  <2> QED BY <2>5, <2>6, Zenon
<1>8. BoundWhereItStarts'
  BY <1>1, <1>7, ZenonT(40) DEF BoundWhereItStarts
<1>9. PageShape'
  <2>1. \A r \in States, c \in Address : objects'[r][c] = objects[src(r)][c] /\ src(r) \in States
    BY <1>3, Zenon
  <2>2. \A q \in Pages, i \in Offsets : Start(q) \in Address /\ <<q, i>> \in Address
    BY OffsetsFact, Zenon DEF Address
  <2> SUFFICES ASSUME NEW r \in States, NEW q \in Pages, NEW i \in Offsets
               PROVE  LET base == objects'[r][Start(q)]
                          o == objects'[r][<<q, i>>]
                      IN  IF base = NoObj \/ base.size = NPieces
                          THEN i # 0 => o = NoObj
                          ELSE o # NoObj /\ o.size = 1 /\ o.buf = base.buf /\ o.owner = base.owner
    BY Zenon DEF PageShape
  <2>3. /\ objects'[r][Start(q)] = objects[src(r)][Start(q)]
        /\ objects'[r][<<q, i>>] = objects[src(r)][<<q, i>>]
        /\ src(r) \in States
    BY <2>1, <2>2, Zenon
  <2> HIDE DEF src
  <2> QED BY <2>3 DEF IInv, PageShape
<1>10. BufferSharing'
  <2> SUFFICES ASSUME NEW r \in States, NEW q \in States, NEW c \in Address, NEW d \in Address,
                      objects'[r][c] # NoObj, objects'[q][d] # NoObj,
                      objects'[r][c].buf = objects'[q][d].buf
               PROVE  c[1] = d[1] /\ (objects'[r][c].owner = cowKey'[r] => r = q)
    BY DEF BufferSharing, IsOwnedByUs
  <2>1. /\ src(r) \in States /\ src(q) \in States
        /\ objects[src(r)][c] # NoObj /\ objects[src(q)][d] # NoObj
        /\ objects[src(r)][c].buf = objects[src(q)][d].buf
        /\ objects'[r][c] = objects[src(r)][c]
    BY <1>3, <1>7
  <2>2. /\ c[1] = d[1]
        /\ objects[src(r)][c].owner = cowKey[src(r)] => src(r) = src(q)
    BY <2>1 DEF IInv, BufferSharing, IsOwnedByUs
  <2>3. ASSUME objects'[r][c].owner = cowKey'[r]
        PROVE  r = q
    <3>1. r \notin {s, t} /\ objects'[r][c].owner = cowKey[r]
      BY <1>7, <2>3
    <3> QED BY <2>1, <2>2, <3>1, Zenon
  <2> QED BY <2>2, <2>3, Zenon
<1>11. CacheExact'
  <2> SUFFICES ASSUME NEW r \in States, NEW h \in Slots, cache'[r][h] # NoObj
               PROVE  objects'[r][cache'[r][h].addr] = cache'[r][h] /\ Hash[cache'[r][h].addr] = h
    BY Zenon DEF CacheExact
  <2>1. r # t
    BY <1>4, Zenon DEF EmptyCache
  <2>2. cache'[r] = cache[r] /\ objects'[r] = objects[r]
    BY <1>3, <1>4, <2>1, Zenon
  <2> QED BY <2>2 DEF IInv, CacheExact
<1>12. IInv'
  BY <1>5, <1>6, <1>8, <1>9, <1>10, <1>11, Zenon DEF IInv
<1>13. ASSUME NEW r \in States, NEW c \in Address
       PROVE  MapByte(r, c)' = MapByte(src(r), c)
  <2>1. objects'[r] = objects[src(r)]
    BY <1>3, Zenon
  <2> HIDE DEF src
  <2>2. Lookup(r, c)' = Lookup(src(r), c)
    BY <2>1, Zenon DEF Lookup
  <2> QED BY <1>1, <2>2, Zenon DEF MapByte
<1>14. \A r \in States, c \in Address : ReadByte(r, c)' = ReadByte(src(r), c)
  <2>1. \A r \in States : src(r) \in States
    BY <1>3, Zenon
  <2> HIDE DEF src
  <2> QED BY <1>12, <1>13, <2>1, ReadIsMapRead, ReadIsMapReadNext DEF ReadsFollowMap
<1>15. memory' = [memory EXCEPT ![t] = memory[s]]
  BY <1>0, <1>14, Zenon DEF memory
<1> QED BY <1>1, <1>12, <1>15, Zenon DEF Isolated!Fork

\* Deleting a state frees the buffers that only it used.
LEMMA DeleteStep ==
  ASSUME IInv, NEW s \in live, Delete(s)
  PROVE  IInv' /\ Isolated!Delete(s)
<1>0. s \in States /\ live \subseteq States
  BY Zenon DEF IInv, TypeOK
<1>1. /\ live' = live \ {s}
      /\ objects' = [objects EXCEPT ![s] = NoObjects]
      /\ cache' = [cache EXCEPT ![s] = EmptyCache]
      /\ Collect(store)
      /\ cowKey' = cowKey
  BY Zenon DEF Delete
<1>2. /\ NoObjects \in [Address -> ObjectState \cup {NoObj}]
      /\ EmptyCache \in [Slots -> ObjectState \cup {NoObj}]
  BY Zenon DEF NoObjects, EmptyCache
<1>3. /\ objects' \in [States -> [Address -> ObjectState \cup {NoObj}]]
      /\ objects'[s] = NoObjects
      /\ \A r \in States \ {s} : objects'[r] = objects[r]
      /\ cache' \in [States -> [Slots -> ObjectState \cup {NoObj}]]
      /\ cache'[s] = EmptyCache
      /\ \A r \in States \ {s} : cache'[r] = cache[r]
  BY <1>0, <1>1, <1>2, Zenon DEF IInv, TypeOK
<1>4. /\ store' \in [BufIds -> [Offsets -> Values] \cup {Freed}]
      /\ \A t \in States, c \in Address :
           objects'[t][c] # NoObj =>
             /\ objects'[t][c].buf \in BufIds
             /\ store'[objects'[t][c].buf] = store[objects'[t][c].buf]
  BY <1>1, <1>3, CollectKeepsBound, Zenon
<1>5. /\ \A c \in Address : objects'[s][c] = NoObj
      /\ \A h \in Slots : cache'[s][h] = NoObj
  BY <1>3, Zenon DEF NoObjects, EmptyCache
<1>6. TypeOK'
  BY <1>1, <1>3, <1>4, Zenon DEF IInv, TypeOK
<1>7. DeadStatesHoldNothing'
  BY <1>0, <1>1, <1>3, Zenon DEF IInv, DeadStatesHoldNothing
<1>8. BoundWhereItStarts'
  <2> SUFFICES ASSUME NEW t \in States, NEW c \in Address, objects'[t][c] # NoObj
               PROVE  /\ objects'[t][c].addr = c
                      /\ objects'[t][c].owner <= cowKey[t]
                      /\ store'[objects'[t][c].buf] # Freed
    BY <1>1 DEF BoundWhereItStarts
  <2>1. objects'[t][c] = objects[t][c]
    BY <1>3, <1>5, Zenon
  <2>2. /\ objects[t][c].addr = c
        /\ objects[t][c].owner <= cowKey[t]
        /\ store[objects[t][c].buf] # Freed
    BY <2>1, Zenon DEF IInv, BoundWhereItStarts
  <2>3. store'[objects'[t][c].buf] = store[objects'[t][c].buf]
    BY <1>4, Zenon
  <2> QED BY <2>1, <2>2, <2>3, Zenon
<1>9. PageShape'
  <2> SUFFICES ASSUME NEW t \in States, NEW q \in Pages, NEW i \in Offsets
               PROVE  LET base == objects'[t][Start(q)]
                          o == objects'[t][<<q, i>>]
                      IN  IF base = NoObj \/ base.size = NPieces
                          THEN i # 0 => o = NoObj
                          ELSE o # NoObj /\ o.size = 1 /\ o.buf = base.buf /\ o.owner = base.owner
    BY Zenon DEF PageShape
  <2>0. Start(q) \in Address /\ <<q, i>> \in Address
    BY OffsetsFact, Zenon DEF Address
  <2>1. CASE t = s
    BY <1>5, <2>0, <2>1, ZenonT(30)
  <2>2. CASE t # s
    BY <1>3, <2>2 DEF IInv, PageShape
  <2> QED BY <2>1, <2>2, Zenon
<1>10. BufferSharing'
  <2>1. \A t \in States, c \in Address : objects'[t][c] # NoObj => objects'[t][c] = objects[t][c]
    BY <1>3, <1>5, Zenon
  <2> QED BY <1>1, <2>1, SMTT(40) DEF IInv, BufferSharing, IsOwnedByUs
<1>11. CacheExact'
  <2>1. \A t \in States, h \in Slots : cache'[t][h] # NoObj => cache'[t] = cache[t] /\ objects'[t] = objects[t]
    BY <1>3, <1>5, Zenon
  <2> QED BY <2>1 DEF IInv, CacheExact
<1>12. IInv'
  BY <1>6, <1>7, <1>8, <1>9, <1>10, <1>11, Zenon DEF IInv
<1>13. ASSUME NEW t \in States, NEW c \in Address
       PROVE  MapByte(t, c)' = IF t = s THEN Unmapped ELSE MapByte(t, c)
  <2>0. Start(c[1]) \in Address
    BY OffsetsFact, Zenon DEF Address, Start
  <2>1. CASE t = s
    <3>1. Lookup(t, c)' = NoObj
      BY <1>5, <2>0, <2>1, Zenon DEF Lookup
    <3> QED BY <2>1, <3>1, Zenon DEF MapByte
  <2>2. CASE t # s
    <3>1. Lookup(t, c)' = Lookup(t, c)
      BY <1>3, <2>2, Zenon DEF Lookup
    <3>2. ASSUME Lookup(t, c) # NoObj
          PROVE  store'[Lookup(t, c).buf] = store[Lookup(t, c).buf]
      <4>1. Lookup(t, c).addr \in Address /\ objects[t][Lookup(t, c).addr] = Lookup(t, c)
        BY <3>2, FindIsLookup, Zenon
      <4>2. objects'[t][Lookup(t, c).addr] = Lookup(t, c)
        BY <1>3, <2>2, <4>1, Zenon
      <4> QED BY <1>4, <3>2, <4>1, <4>2
    <3> QED BY <2>2, <3>1, <3>2, Zenon DEF MapByte
  <2> QED BY <2>1, <2>2, Zenon
<1>14. \A t \in States, c \in Address : ReadByte(t, c)' = IF t = s THEN Unmapped ELSE ReadByte(t, c)
  BY <1>12, <1>13, ReadIsMapRead, ReadIsMapReadNext, ZenonT(30) DEF ReadsFollowMap
<1>15. memory' = [memory EXCEPT ![s] = [a \in Address |-> Unmapped]]
  BY <1>0, <1>14, Zenon DEF memory
<1> QED BY <1>1, <1>12, <1>15, Zenon DEF Isolated!Delete, Isolated!Empty, Isolated!Address, Address

-------------------------------------------------------------------------------
LEMMA InitIInv == Init => IInv /\ Isolated!Init
<1> SUFFICES ASSUME Init PROVE IInv /\ Isolated!Init
  OBVIOUS
<1>1. /\ \A s \in States, a \in Address : objects[s][a] = NoObj
      /\ \A s \in States, h \in Slots : cache[s][h] = NoObj
  BY Zenon DEF Init, NoObjects, EmptyCache
<1>2. TypeOK
  BY ConstantAssumption, Zenon DEF Init, TypeOK, NoObjects, EmptyCache
<1>3. DeadStatesHoldNothing
  BY Zenon DEF Init, DeadStatesHoldNothing
<1>4. BoundWhereItStarts /\ BufferSharing /\ CacheExact
  BY <1>1, Zenon DEF BoundWhereItStarts, BufferSharing, CacheExact
<1>5. PageShape
  <2>1. \A p \in Pages, i \in Offsets : Start(p) \in Address /\ <<p, i>> \in Address
    BY OffsetsFact, Zenon DEF Address
  <2> QED BY <1>1, <2>1, Zenon DEF PageShape
<1>6. IInv
  BY <1>2, <1>3, <1>4, <1>5, Zenon DEF IInv
<1>7. \A s \in States, a \in Address : ReadByte(s, a) = Unmapped
  <2>1. \A a \in Address : Start(a[1]) \in Address
    BY OffsetsFact, Zenon DEF Address, Start
  <2>2. \A s \in States, a \in Address : MapByte(s, a) = Unmapped
    BY <1>1, <2>1, Zenon DEF MapByte, Lookup
  <2> QED BY <1>6, <2>2, ReadIsMapRead, Zenon DEF ReadsFollowMap
<1>8. memory = [s \in States |-> [a \in Address |-> Unmapped]]
  BY <1>7, Zenon DEF memory
<1> QED BY <1>6, <1>8, Zenon DEF Init, Isolated!Init, Isolated!Empty, Isolated!Address, Address

\* Every step of the address spaces keeps the invariant, and is a step of the
\* isolated memories or changes nothing they can read.
LEMMA NextStep == IInv /\ [Next]_vars => IInv' /\ [Isolated!Next]_(Isolated!vars)
<1> SUFFICES ASSUME IInv, [Next]_vars PROVE IInv' /\ [Isolated!Next]_(Isolated!vars)
  OBVIOUS
<1>1. CASE UNCHANGED vars
  <2>0. UNCHANGED <<live, cowKey, objects, cache, store>>
    BY <1>1, Zenon DEF vars
  <2>1. IInv'
    <3>1. TypeOK' /\ DeadStatesHoldNothing' /\ CacheExact'
      BY <2>0, ZenonT(30) DEF IInv, TypeOK, DeadStatesHoldNothing, CacheExact
    <3>2. BoundWhereItStarts' /\ PageShape'
      BY <2>0 DEF IInv, BoundWhereItStarts, PageShape
    <3>3. BufferSharing'
      BY <2>0 DEF IInv, BufferSharing, IsOwnedByUs
    <3> QED BY <3>1, <3>2, <3>3, Zenon DEF IInv
  <2>2. memory' = memory /\ live' = live
    <3>1. ASSUME NEW s \in States, NEW a \in Address
          PROVE  FindObject(s, a)' = FindObject(s, a)
      <4>1. CacheGet(s, a)' = CacheGet(s, a)
        BY <2>0, Zenon DEF CacheGet
      <4>2. Lookup(s, a)' = Lookup(s, a)
        BY <2>0, Zenon DEF Lookup
      <4> QED BY <4>1, <4>2, Zenon DEF FindObject
    <3>2. \A s \in States, a \in Address : ReadByte(s, a)' = ReadByte(s, a)
      BY <2>0, <3>1, Zenon DEF ReadByte
    <3> QED BY <2>0, <3>2, Zenon DEF memory
  <2> QED BY <2>1, <2>2, Zenon DEF Isolated!vars
<1>2. ASSUME NEW s \in live, NEW p \in Pages, NEW v \in Values, NEW b \in Unallocated,
             BindObject(s, p, v, b)
      PROVE  IInv' /\ Isolated!Next
  BY <1>2, BindObjectStep, Zenon DEF Isolated!Next
<1>3. ASSUME NEW s \in live, NEW p \in Pages, UnbindObject(s, p)
      PROVE  IInv' /\ Isolated!Next
  BY <1>3, UnbindObjectStep, Zenon DEF Isolated!Next
<1>4. ASSUME NEW s \in live, NEW a \in Address, Read(s, a)
      PROVE  IInv' /\ UNCHANGED Isolated!vars
  BY <1>4, ReadStep, Zenon DEF Isolated!vars, Read
<1>5. ASSUME NEW s \in live, NEW a \in Address, NEW v \in Values, WriteOwned(s, a, v)
      PROVE  IInv' /\ Isolated!Next
  BY <1>5, WriteOwnedStep, Zenon DEF Isolated!Next, Isolated!Address, Address
<1>6. ASSUME NEW s \in live, NEW a \in Address, NEW v \in Values, NEW b \in Unallocated,
             WriteShared(s, a, v, b)
      PROVE  IInv' /\ Isolated!Next
  BY <1>6, WriteSharedStep, Zenon DEF Isolated!Next, Isolated!Address, Address
<1>7. ASSUME NEW s \in live, NEW p \in Pages, NEW b \in BufIds, SplitMemoryObject(s, p, b)
      PROVE  IInv' /\ UNCHANGED Isolated!vars
  BY <1>7, SplitMemoryObjectStep, Zenon DEF Isolated!vars
<1>8. ASSUME NEW s \in live, NEW t \in States \ live, Fork(s, t)
      PROVE  IInv' /\ Isolated!Next
  BY <1>8, ForkStep, Zenon DEF Isolated!Next
<1>9. ASSUME NEW s \in live, Delete(s)
      PROVE  IInv' /\ Isolated!Next
  BY <1>9, DeleteStep, Zenon DEF Isolated!Next
<1> QED BY <1>1, <1>2, <1>3, <1>4, <1>5, <1>6, <1>7, <1>8, <1>9, Zenon DEF Next

LEMMA InvariantImpliesSafety ==
  IInv => TypeOK /\ OwnersWithinEpoch /\ OwnedBuffersArePrivate /\ PiecesOwnedTogether /\ CacheCoherent
<1> SUFFICES ASSUME IInv
             PROVE  TypeOK /\ OwnersWithinEpoch /\ OwnedBuffersArePrivate /\ PiecesOwnedTogether /\ CacheCoherent
  OBVIOUS
<1>1. TypeOK /\ live \subseteq States
  BY Zenon DEF IInv, TypeOK
<1>2. OwnersWithinEpoch
  BY <1>1, Zenon DEF IInv, BoundWhereItStarts, OwnersWithinEpoch
<1>3. OwnedBuffersArePrivate
  BY <1>1 DEF IInv, BufferSharing, OwnedBuffersArePrivate
<1>4. PiecesOwnedTogether
  <2> SUFFICES ASSUME NEW s \in live, NEW p \in Pages, NEW i \in Offsets, NEW j \in Offsets,
                      objects[s][<<p, i>>] # NoObj, objects[s][<<p, j>>] # NoObj
               PROVE  objects[s][<<p, i>>].owner = objects[s][<<p, j>>].owner
    BY DEF PiecesOwnedTogether, IsOwnedByUs
  <2>1. s \in States /\ Start(p) = <<p, 0>>
    BY <1>1, Zenon DEF Start
  <2> QED BY <2>1, Zenon DEF IInv, PageShape
<1>5. CacheCoherent
  BY <1>1, Zenon DEF IInv, CacheExact, CacheCoherent
<1> QED BY <1>1, <1>2, <1>3, <1>4, <1>5, Zenon

\* Along every behaviour of the address spaces, for any number of states, pages,
\* pieces and buffers: owners stay within the epoch of their address space,
\* isOwnedByUs implies that the buffer is private, the pieces of a split page are
\* owned together (the assertion of getWriteable) and the cache never holds a
\* stale object.
THEOREM AddressSpaceSafety ==
  Spec => [](TypeOK /\ OwnersWithinEpoch /\ OwnedBuffersArePrivate /\ PiecesOwnedTogether /\ CacheCoherent)
BY InitIInv, NextStep, InvariantImpliesSafety, PTL DEF Spec

\* Copy-on-write address spaces implement isolated memories: what the states read
\* through findObject behaves as if fork copied the whole memory.
THEOREM AddressSpaceRefinement == Spec => ImplementsIsolatedMemories
BY InitIInv, NextStep, PTL DEF Spec, ImplementsIsolatedMemories, Isolated!Spec

\* When getWriteable has to copy one piece of a split page, it owns none of the
\* others: the assertion in its loop over the pieces cannot fail.
THEOREM PiecesStayTogether == Spec => []PiecesOwnedTogether
BY AddressSpaceSafety, PTL


\* A hit in AddressSpace::m_cache is what the map of objects would have given,
\* whatever was bound, replaced, split and unbound before.
THEOREM CacheStaysCoherent == Spec => []CacheCoherent
BY AddressSpaceSafety, PTL

===============================================================================
