--------------------------- MODULE ObjectStateProofs ---------------------------
(***************************************************************************)
(* Proofs about ObjectState for every page size, split and set of values.  *)
(***************************************************************************)
EXTENDS ObjectState, TLAPS

\* Only an object with a flush mask has flushed bytes.
FlushedNeedsMask == flushed # {} => hasFlushMask

\* Only a byte that was flushed can be behind in the update list.
OutdatedWereFlushed == outdated \subseteq flushed

IInv ==
  /\ TypeOK
  /\ CacheInvariants
  /\ ReadsAreExact
  /\ FlushedBytesAreCurrent
  /\ SplitLosesNothing
  /\ FlushedNeedsMask
  /\ OutdatedWereFlushed

\* The object of a byte holds it.
LEMMA ExtentFact ==
  ASSUME NEW i \in Offsets
  PROVE  Extent(i) \subseteq Offsets /\ i \in Extent(i)
  BY DEF Extent

\* A flush makes the update list current for the whole object, but for the bytes that
\* were stored to directly since the flush before.
LEMMA FlushFact ==
  ASSUME IInv, NEW E \in SUBSET Offsets
  PROVE  /\ FlushedUpdates(E) \in [Offsets -> Vals]
         /\ \A j \in E \ outdated : FlushedUpdates(E)[j] = contents[j]
         /\ \A j \in Offsets \ E : FlushedUpdates(E)[j] = updates[j]
<1>1. ASSUME NEW j \in Offsets
      PROVE  /\ FlushedUpdates(E)[j] \in Vals
             /\ j \in E \ outdated => FlushedUpdates(E)[j] = contents[j]
             /\ j \notin E => FlushedUpdates(E)[j] = updates[j]
  <2>1. CASE j \in E /\ ~IsByteFlushed(j)
    <3>1. IsByteConcrete(j) \/ IsByteKnownSymbolic(j)
      BY <2>1 DEF IInv, CacheInvariants
    <3>2. FlushedUpdates(E)[j] = Read8(j)
      BY <2>1, <3>1 DEF FlushedUpdates, Read8
    <3>3. j \notin outdated
      BY <2>1 DEF IInv, OutdatedWereFlushed, IsByteFlushed
    <3> QED BY <2>1, <3>2, <3>3 DEF IInv, ReadsAreExact, TypeOK
  <2>2. CASE j \in E /\ IsByteFlushed(j)
    BY <2>2 DEF FlushedUpdates, IInv, FlushedBytesAreCurrent, IsByteFlushed, TypeOK
  <2>3. CASE j \notin E
    BY <2>3 DEF FlushedUpdates, IInv, TypeOK
  <2> QED BY <2>1, <2>2, <2>3
<1>2. FlushedUpdates(E) = [j \in Offsets |-> FlushedUpdates(E)[j]]
  BY DEF FlushedUpdates
<1> QED BY <1>1, <1>2

\* The invariants about a byte, put together.
ByteOK(i) ==
  /\ ~(IsByteKnownSymbolic(i) /\ IsByteConcrete(i))
  /\ ~IsByteFlushed(i) => IsByteConcrete(i) \/ IsByteKnownSymbolic(i)
  /\ IsByteConcrete(i) \/ i \notin outdated => Read8(i) = contents[i]
  /\ IsByteFlushed(i) /\ i \notin outdated => updates[i] = contents[i]
  /\ i \in outdated => IsByteFlushed(i)

LEMMA BytesOK ==
  TypeOK => ((/\ CacheInvariants /\ ReadsAreExact
              /\ FlushedBytesAreCurrent /\ OutdatedWereFlushed) <=> \A i \in Offsets : ByteOK(i))
  BY DEF TypeOK, CacheInvariants, ReadsAreExact, FlushedBytesAreCurrent, ByteOK, IsByteFlushed,
     OutdatedWereFlushed

LEMMA BytesOKNext ==
  TypeOK' => ((/\ CacheInvariants' /\ ReadsAreExact'
               /\ FlushedBytesAreCurrent' /\ OutdatedWereFlushed') <=> \A i \in Offsets : ByteOK(i)')
  BY DEF TypeOK, CacheInvariants, ReadsAreExact, FlushedBytesAreCurrent, ByteOK, IsByteFlushed,
     OutdatedWereFlushed

-------------------------------------------------------------------------------
LEMMA InitIInv == Init => IInv
  BY ObjectAssumption, ZenonT(30) DEF Init, IInv, TypeOK, CacheInvariants, ReadsAreExact, FlushedBytesAreCurrent,
     SplitLosesNothing, FlushedNeedsMask, OutdatedWereFlushed, IsByteConcrete, IsByteKnownSymbolic, IsByteFlushed, Read8

LEMMA WriteConcreteStep ==
  ASSUME IInv, NEW i \in Offsets, NEW v \in Vals, WriteConcrete(i, v)
  PROVE  IInv'
<1>1. concreteMask' = IF concreteMask = Null THEN Null ELSE concreteMask \cup {i}
  BY DEF WriteConcrete, MarkByteConcrete
<1>2. TypeOK'
  BY <1>1 DEF IInv, TypeOK, WriteConcrete
<1>3. /\ \A j \in Offsets : IsByteConcrete(j)' <=> (j = i \/ IsByteConcrete(j))
      /\ \A j \in Offsets : IsByteFlushed(j)' <=> (j # i /\ IsByteFlushed(j))
      /\ outdated' = outdated \ {i}
  BY <1>1, ObjectAssumption DEF IInv, TypeOK, IsByteConcrete, IsByteFlushed, WriteConcrete
<1>4. /\ \A j \in Offsets \ {i} : /\ buffer'[j] = buffer[j]
                                  /\ knownSymbolics'[j] = knownSymbolics[j]
                                  /\ contents'[j] = contents[j]
      /\ buffer'[i] = v /\ knownSymbolics'[i] = Null /\ contents'[i] = v
      /\ updates' = updates
  BY DEF IInv, TypeOK, WriteConcrete
<1>5. \A j \in Offsets : ByteOK(j)
  BY BytesOK DEF IInv
<1>6. \A j \in Offsets : ByteOK(j)'
  BY <1>3, <1>4, <1>5 DEF ByteOK, Read8, IsByteKnownSymbolic
<1>7. SplitLosesNothing' /\ FlushedNeedsMask'
  BY <1>1, ObjectAssumption DEF IInv, TypeOK, SplitLosesNothing, FlushedNeedsMask, WriteConcrete
<1> QED BY <1>2, <1>6, <1>7, BytesOKNext DEF IInv

\* markByteSymbolic unsets the bits of the bytes it is called for, and no other.
LEMMA MarkFact ==
  ASSUME TypeOK, NEW B \in SUBSET Offsets, MarkBytesSymbolic(B)
  PROVE  /\ concreteMask' \in (SUBSET Offsets) \cup {Null}
         /\ concreteMask # Null => concreteMask' # Null
         /\ \A j \in Offsets : IsByteConcrete(j)' <=> (j \notin B /\ IsByteConcrete(j))
  BY ObjectAssumption DEF TypeOK, MarkBytesSymbolic, IsByteConcrete

LEMMA WriteSymbolicStep ==
  ASSUME IInv, NEW i \in Offsets, NEW x \in Vals, WriteSymbolic(i, x)
  PROVE  IInv'
<1>1. /\ concreteMask' \in (SUBSET Offsets) \cup {Null}
      /\ concreteMask # Null => concreteMask' # Null
      /\ \A j \in Offsets : IsByteConcrete(j)' <=> (j # i /\ IsByteConcrete(j))
  BY MarkFact DEF WriteSymbolic, IInv
<1>2. TypeOK'
  BY <1>1 DEF IInv, TypeOK, WriteSymbolic
<1>3. /\ \A j \in Offsets : IsByteFlushed(j)' <=> (j # i /\ IsByteFlushed(j))
      /\ outdated' = outdated \ {i}
  BY DEF IsByteFlushed, WriteSymbolic
<1>4. /\ \A j \in Offsets \ {i} : /\ knownSymbolics'[j] = knownSymbolics[j]
                                  /\ contents'[j] = contents[j]
      /\ knownSymbolics'[i] = x /\ contents'[i] = x /\ x # Null
      /\ updates' = updates /\ buffer' = buffer
  BY ObjectAssumption DEF IInv, TypeOK, WriteSymbolic
<1>5. \A j \in Offsets : ByteOK(j)
  BY BytesOK DEF IInv
<1>6. \A j \in Offsets : ByteOK(j)'
  BY <1>1, <1>3, <1>4, <1>5 DEF ByteOK, Read8, IsByteKnownSymbolic
<1>7. SplitLosesNothing' /\ FlushedNeedsMask'
  BY <1>1 DEF IInv, TypeOK, SplitLosesNothing, FlushedNeedsMask, WriteSymbolic
<1> QED BY <1>2, <1>6, <1>7, BytesOKNext DEF IInv

\* A direct store changes the value of one byte and where no byte is.
LEMMA DirectWriteStep ==
  ASSUME IInv, NEW i \in Offsets, NEW v \in Vals, DirectWrite(i, v)
  PROVE  IInv'
<1>1. /\ IsByteConcrete(i)
      /\ outdated' = outdated \cup ({i} \cap flushed)
      /\ UNCHANGED <<splittable, split, concreteMask, knownSymbolics, hasFlushMask, flushed, updates>>
  BY DEF DirectWrite
<1>2. /\ \A j \in Offsets \ {i} : buffer'[j] = buffer[j] /\ contents'[j] = contents[j]
      /\ buffer'[i] = v /\ contents'[i] = v
  BY DEF IInv, TypeOK, DirectWrite
<1>3. TypeOK'
  BY DEF IInv, TypeOK, DirectWrite
<1>4. \A j \in Offsets : /\ IsByteConcrete(j)' <=> IsByteConcrete(j)
                         /\ IsByteFlushed(j)' <=> IsByteFlushed(j)
                         /\ IsByteKnownSymbolic(j)' <=> IsByteKnownSymbolic(j)
  BY <1>1 DEF IsByteConcrete, IsByteFlushed, IsByteKnownSymbolic
<1>5. \A j \in Offsets : ByteOK(j)
  BY BytesOK DEF IInv
<1>6. \A j \in Offsets : ByteOK(j)'
  BY <1>1, <1>2, <1>4, <1>5 DEF ByteOK, Read8, IsByteFlushed
<1>7. SplitLosesNothing' /\ FlushedNeedsMask'
  BY <1>1 DEF IInv, SplitLosesNothing, FlushedNeedsMask
<1> QED BY <1>3, <1>6, <1>7, BytesOKNext DEF IInv

LEMMA ReadAtSymbolicOffsetStep ==
  ASSUME IInv, NEW i \in Offsets, ReadAtSymbolicOffset(i)
  PROVE  IInv'
<1> DEFINE E == Extent(i)
<1>0. E \in SUBSET Offsets
  BY ExtentFact
<1>1. /\ updates' \in [Offsets -> Vals]
      /\ \A j \in E \ outdated : updates'[j] = contents[j]
      /\ \A j \in Offsets \ E : updates'[j] = updates[j]
  BY <1>0, FlushFact DEF ReadAtSymbolicOffset
<1> HIDE DEF E
<1>2. /\ flushed' = flushed \cup E
      /\ hasFlushMask' = TRUE
      /\ UNCHANGED <<splittable, split, buffer, concreteMask, knownSymbolics, contents, outdated>>
  BY DEF ReadAtSymbolicOffset, E
<1>3. TypeOK'
  BY <1>0, <1>1, <1>2 DEF IInv, TypeOK
<1>4. \A j \in Offsets : ByteOK(j)
  BY BytesOK DEF IInv
<1>5. \A j \in Offsets : ByteOK(j)'
  <2> SUFFICES ASSUME NEW j \in Offsets PROVE ByteOK(j)'
    OBVIOUS
  <2>1. /\ IsByteConcrete(j)' <=> IsByteConcrete(j)
        /\ IsByteKnownSymbolic(j)' <=> IsByteKnownSymbolic(j)
        /\ IsByteFlushed(j)' <=> (j \in E \/ IsByteFlushed(j))
    BY <1>2 DEF IsByteConcrete, IsByteKnownSymbolic, IsByteFlushed
  <2>2. IsByteConcrete(j) \/ j \notin outdated => Read8(j)' = contents[j]
    <3>1. CASE IsByteConcrete(j) \/ IsByteKnownSymbolic(j)
      BY <1>2, <1>4, <2>1, <3>1 DEF ByteOK, Read8
    <3>2. CASE ~(IsByteConcrete(j) \/ IsByteKnownSymbolic(j))
      BY <1>1, <1>2, <1>4, <2>1, <3>2 DEF ByteOK, Read8
    <3> QED BY <3>1, <3>2
  <2> QED BY <1>1, <1>2, <1>4, <2>1, <2>2 DEF ByteOK
<1>6. SplitLosesNothing' /\ FlushedNeedsMask'
  BY <1>2 DEF IInv, SplitLosesNothing, FlushedNeedsMask, ReadAtSymbolicOffset, SymbolicOffsetAllowed
<1> QED BY <1>3, <1>5, <1>6, BytesOKNext DEF IInv

LEMMA WriteAtSymbolicOffsetStep ==
  ASSUME IInv, NEW i \in Offsets, NEW x \in Vals, WriteAtSymbolicOffset(i, x)
  PROVE  IInv'
<1> DEFINE E == Extent(i)
           u == FlushedUpdates(E)
<1>0. E \in SUBSET Offsets /\ i \in E
  BY ExtentFact
<1>1. /\ u \in [Offsets -> Vals]
      /\ \A j \in E \ outdated : u[j] = contents[j]
      /\ \A j \in Offsets \ E : u[j] = updates[j]
  BY <1>0, FlushFact
<1>2. /\ updates' = [u EXCEPT ![i] = x]
      /\ flushed' = flushed \cup E
      /\ hasFlushMask' = TRUE
      /\ MarkBytesSymbolic({j \in E : IsByteConcrete(j)})
      /\ knownSymbolics' = [j \in Offsets |-> IF j \in E THEN Null ELSE knownSymbolics[j]]
      /\ contents' = [contents EXCEPT ![i] = x]
      /\ outdated' = outdated \ {i}
      /\ UNCHANGED <<splittable, split, buffer>>
  BY DEF WriteAtSymbolicOffset
<1> HIDE DEF E, u
<1>3. /\ concreteMask' \in (SUBSET Offsets) \cup {Null}
      /\ concreteMask # Null => concreteMask' # Null
      /\ \A j \in Offsets : IsByteConcrete(j)' <=> (j \notin E /\ IsByteConcrete(j))
  <2>1. {j \in E : IsByteConcrete(j)} \in SUBSET Offsets
    BY <1>0
  <2> QED BY <1>2, <2>1, MarkFact DEF IInv
<1>4. /\ updates' \in [Offsets -> Vals]
      /\ updates'[i] = x
      /\ \A j \in E \ ({i} \cup outdated) : updates'[j] = contents[j]
      /\ \A j \in Offsets \ E : updates'[j] = updates[j]
  BY <1>0, <1>1, <1>2
<1>5. /\ contents' \in [Offsets -> Vals]
      /\ contents'[i] = x
      /\ \A j \in Offsets \ {i} : contents'[j] = contents[j]
  BY <1>2 DEF IInv, TypeOK
<1>6. TypeOK'
  BY <1>0, <1>2, <1>3, <1>4, <1>5 DEF IInv, TypeOK
<1>7. \A j \in Offsets : ByteOK(j)
  BY BytesOK DEF IInv
<1>8. \A j \in Offsets : ByteOK(j)'
  <2> SUFFICES ASSUME NEW j \in Offsets PROVE ByteOK(j)'
    OBVIOUS
  <2>1. /\ IsByteKnownSymbolic(j)' <=> (j \notin E /\ IsByteKnownSymbolic(j))
        /\ IsByteFlushed(j)' <=> (j \in E \/ IsByteFlushed(j))
    BY <1>2 DEF IsByteKnownSymbolic, IsByteFlushed
  <2>2. CASE j \in E
    <3>1. j \notin outdated' => updates'[j] = contents'[j]
      BY <1>0, <1>2, <1>4, <1>5, <2>2
    <3>2. Read8(j)' = updates'[j]
      BY <1>3, <2>1, <2>2 DEF Read8
    <3> QED BY <1>2, <1>3, <1>7, <2>1, <2>2, <3>1, <3>2 DEF ByteOK
  <2>3. CASE j \notin E
    <3>1. contents'[j] = contents[j] /\ updates'[j] = updates[j] /\ buffer'[j] = buffer[j]
          /\ knownSymbolics'[j] = knownSymbolics[j]
      BY <1>0, <1>2, <1>4, <1>5, <2>3
    <3>2. Read8(j)' = Read8(j)
      BY <1>3, <2>1, <2>3, <3>1 DEF Read8
    <3> QED BY <1>0, <1>2, <1>3, <1>7, <2>1, <2>3, <3>1, <3>2 DEF ByteOK
  <2> QED BY <2>2, <2>3
<1>9. SplitLosesNothing' /\ FlushedNeedsMask'
  BY <1>2, <1>3 DEF IInv, SplitLosesNothing, FlushedNeedsMask, WriteAtSymbolicOffset, SymbolicOffsetAllowed
<1> QED BY <1>6, <1>8, <1>9, BytesOKNext DEF IInv

\* Nothing is in the update list of a page that can be split.
LEMMA SplitStep ==
  ASSUME IInv, Split
  PROVE  IInv'
<1>1. /\ flushed = {} /\ split' = TRUE /\ splittable' = FALSE /\ hasFlushMask' = FALSE
      /\ flushed' = {} /\ outdated' = outdated
  BY DEF Split, IInv, SplitLosesNothing, FlushedNeedsMask
<1>2. /\ concreteMask' \in SUBSET Offsets /\ concreteMask' # Null
      /\ \A j \in Offsets : IsByteConcrete(j)' <=> IsByteConcrete(j)
  BY ObjectAssumption DEF Split, IInv, TypeOK, IsByteConcrete
<1>3. TypeOK'
  BY <1>1, <1>2, ObjectAssumption, Zenon DEF IInv, TypeOK, Split
<1>4. \A j \in Offsets : ByteOK(j)
  BY BytesOK DEF IInv
<1>5. \A j \in Offsets : ByteOK(j)'
  BY <1>1, <1>2, <1>4 DEF Split, ByteOK, Read8, IsByteFlushed, IsByteKnownSymbolic
<1>6. SplitLosesNothing' /\ FlushedNeedsMask'
  BY <1>1, <1>2 DEF SplitLosesNothing, FlushedNeedsMask
<1> QED BY <1>3, <1>5, <1>6, BytesOKNext DEF IInv

-------------------------------------------------------------------------------
LEMMA NextStep == IInv /\ [Next]_vars => IInv'
<1> SUFFICES ASSUME IInv, [Next]_vars PROVE IInv'
  OBVIOUS
<1>1. CASE UNCHANGED vars
  BY <1>1 DEF vars, IInv, TypeOK, CacheInvariants, ReadsAreExact, FlushedBytesAreCurrent,
     SplitLosesNothing, FlushedNeedsMask, OutdatedWereFlushed, IsByteConcrete, IsByteKnownSymbolic, IsByteFlushed, Read8
<1>2. CASE Next
  BY <1>2, WriteConcreteStep, WriteSymbolicStep, DirectWriteStep, ReadAtSymbolicOffsetStep, WriteAtSymbolicOffsetStep,
     SplitStep DEF Next
<1> QED BY <1>1, <1>2

\* For every page size and every sequence of accesses, the direct stores of generated
\* code and devices included: the cache invariants of Memory.cpp hold, reads at
\* constant and at symbolic offsets give what was last written, unless a direct store
\* to a flushed byte came in between, and splitMemoryObject never drops a byte.
THEOREM ObjectStateSafety ==
  Spec => [](TypeOK /\ CacheInvariants /\ ReadsAreExact /\ FlushedBytesAreCurrent /\ SplitLosesNothing)
<1>1. IInv => TypeOK /\ CacheInvariants /\ ReadsAreExact /\ FlushedBytesAreCurrent /\ SplitLosesNothing
  BY DEF IInv
<1> QED BY <1>1, InitIInv, NextStep, PTL DEF Spec

\* The "Cache Invariants" of Memory.cpp, which flushRangeForRead and
\* flushRangeForWrite assert, hold after any sequence of accesses.
THEOREM CachesStayConsistent == Spec => []CacheInvariants
BY ObjectStateSafety, PTL


\* ObjectState::split is never given a page whose contents are in a flush mask or an
\* update list, and the pieces have the concrete mask they share.
THEOREM SplitsLoseNothing == Spec => []SplitLosesNothing
BY ObjectStateSafety, PTL

===============================================================================
