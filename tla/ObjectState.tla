------------------------------ MODULE ObjectState ------------------------------
(***************************************************************************)
(* klee::ObjectState: the bytes of one page of memory and the caches in    *)
(* front of them (klee/lib/Core/Memory.cpp, klee/include/klee/Memory.h).   *)
(*                                                                         *)
(* A byte is concrete (in the buffer), symbolic with a known expression,   *)
(* or only in the update list, the array that accesses at a symbolic       *)
(* offset use; the flush mask says which bytes the update list is up to    *)
(* date for.  All expressions are evaluated under one arbitrary assignment *)
(* of the symbolic variables: an expression is its value, a symbolic       *)
(* offset is the offset it comes to, and the update list is the array its  *)
(* writes leave.  What holds here holds for every assignment.              *)
(*                                                                         *)
(* The page may be split into pieces, objects of their own that share      *)
(* buffer and concrete mask and have flush mask, known expressions and     *)
(* update list each; those are kept here by offset in the page.            *)
(*                                                                         *)
(* Generated code and devices store concrete bytes straight into the       *)
(* buffer (DirectWrite).  None of the masks changes then, so that the      *)
(* update list of a byte that was flushed falls behind.                    *)
(*                                                                         *)
(* Two history variables: contents is what was last written to each byte,  *)
(* outdated has the bytes that were stored to directly after a flush.      *)
(***************************************************************************)
EXTENDS Naturals

CONSTANTS
  PageSize,    \* bytes in a page
  PieceSize,   \* bytes in a piece; the last one may be shorter
  Vals,        \* byte values
  Zero,        \* the value of a byte that was never written
  Null         \* no known expression; no mask

Offsets == 0 .. PageSize - 1

ASSUME ObjectAssumption ==
  /\ PageSize \in Nat
  /\ PieceSize \in Nat \ {0}
  /\ Zero \in Vals
  /\ Null \notin Vals
  /\ \A B \in SUBSET Offsets : B # Null

VARIABLES
  splittable,     \* m_splittable
  split,          \* the page has been replaced by its pieces
  buffer,         \* m_concreteBuffer
  concreteMask,   \* m_concreteMask: the concrete bytes; Null if all are
  knownSymbolics, \* m_knownSymbolics
  hasFlushMask,   \* some object of the page has an m_flushMask
  flushed,        \* the bytes unset in an m_flushMask
  updates,        \* m_updates
  contents,       \* history: the bytes of the page
  outdated        \* history: bytes stored to directly since they were flushed

vars == <<splittable, split, buffer, concreteMask, knownSymbolics, hasFlushMask, flushed,
          updates, contents, outdated>>

\* The offsets of the object that byte i belongs to.
Extent(i) == {j \in Offsets : split => j \div PieceSize = i \div PieceSize}

IsByteConcrete(i) == concreteMask # Null => i \in concreteMask
IsByteFlushed(i) == i \in flushed
IsByteKnownSymbolic(i) == knownSymbolics[i] # Null

\* markByteSymbolic of the bytes B; the first one creates the mask.
MarkBytesSymbolic(B) ==
  concreteMask' = IF B = {} THEN concreteMask
                  ELSE (IF concreteMask = Null THEN Offsets ELSE concreteMask) \ B

MarkByteConcrete(i) ==
  concreteMask' = IF concreteMask = Null THEN Null ELSE concreteMask \cup {i}

\* read8 of a byte at a constant offset.
Read8(i) ==
  IF IsByteConcrete(i) THEN buffer[i]
  ELSE IF IsByteKnownSymbolic(i) THEN knownSymbolics[i]
  ELSE updates[i]

\* What flushRangeForRead and flushRangeForWrite append for a byte of an object.
FlushedUpdates(E) ==
  [i \in Offsets |->
     IF i \in E /\ ~IsByteFlushed(i)
     THEN IF IsByteConcrete(i) THEN buffer[i] ELSE knownSymbolics[i]
     ELSE updates[i]]

-------------------------------------------------------------------------------
Init ==
  /\ splittable \in BOOLEAN
  /\ split = FALSE
  /\ buffer = [i \in Offsets |-> Zero]
  /\ concreteMask = Null
  /\ knownSymbolics = [i \in Offsets |-> Null]
  /\ hasFlushMask = FALSE
  /\ flushed = {}
  /\ updates = [i \in Offsets |-> Zero]
  /\ contents = [i \in Offsets |-> Zero]
  /\ outdated = {}

\* Mutant of WriteConcrete: the known expression stays.
WriteConcreteKeepsKnown(i, v) ==
  /\ buffer' = [buffer EXCEPT ![i] = v]
  /\ MarkByteConcrete(i)
  /\ flushed' = flushed \ {i}
  /\ contents' = [contents EXCEPT ![i] = v]
  /\ outdated' = outdated \ {i}
  /\ UNCHANGED <<splittable, split, knownSymbolics, hasFlushMask, updates>>

\* write of a concrete byte at a constant offset.
WriteConcrete(i, v) ==
  /\ buffer' = [buffer EXCEPT ![i] = v]
  /\ knownSymbolics' = [knownSymbolics EXCEPT ![i] = Null]
  /\ MarkByteConcrete(i)
  /\ flushed' = flushed \ {i}
  /\ contents' = [contents EXCEPT ![i] = v]
  /\ outdated' = outdated \ {i}
  /\ UNCHANGED <<splittable, split, hasFlushMask, updates>>

\* write of a symbolic byte at a constant offset.
WriteSymbolic(i, x) ==
  /\ knownSymbolics' = [knownSymbolics EXCEPT ![i] = x]
  /\ MarkBytesSymbolic({i})
  /\ flushed' = flushed \ {i}
  /\ contents' = [contents EXCEPT ![i] = x]
  /\ outdated' = outdated \ {i}
  /\ UNCHANGED <<splittable, split, buffer, hasFlushMask, updates>>

\* A store of a concrete byte around ObjectState::write: through an entry of the TLB,
\* where io_write checks a page with TLB_SYMB byte by byte, or by s2e_dma_rw.
DirectWrite(i, v) ==
  /\ IsByteConcrete(i)
  /\ buffer' = [buffer EXCEPT ![i] = v]
  /\ contents' = [contents EXCEPT ![i] = v]
  /\ outdated' = outdated \cup ({i} \cap flushed)
  /\ UNCHANGED <<splittable, split, concreteMask, knownSymbolics, hasFlushMask, flushed,
                 updates>>

\* Mutant of SymbolicOffsetAllowed: a splittable page is not split first.
SymbolicOffsetAlways == TRUE

\* executeMemoryOperation splits a splittable object before it is accessed at a
\* symbolic offset; one that is accessed is therefore not splittable.
SymbolicOffsetAllowed == split \/ ~splittable

\* read at a symbolic offset that stays in the object of byte i.
ReadAtSymbolicOffset(i) ==
  /\ SymbolicOffsetAllowed
  /\ updates' = FlushedUpdates(Extent(i))
  /\ flushed' = flushed \cup Extent(i)
  /\ hasFlushMask' = TRUE
  /\ UNCHANGED <<splittable, split, buffer, concreteMask, knownSymbolics, contents, outdated>>

\* Mutant of WriteAtSymbolicOffset: bytes that were already flushed stay concrete.
WriteAtSymbolicOffsetSkipsFlushed(i, x) ==
  /\ SymbolicOffsetAllowed
  /\ updates' = [FlushedUpdates(Extent(i)) EXCEPT ![i] = x]
  /\ flushed' = flushed \cup Extent(i)
  /\ hasFlushMask' = TRUE
  /\ MarkBytesSymbolic({j \in Extent(i) : IsByteConcrete(j) /\ ~IsByteFlushed(j)})
  /\ knownSymbolics' = [j \in Offsets |-> IF j \in Extent(i) THEN Null ELSE knownSymbolics[j]]
  /\ contents' = [contents EXCEPT ![i] = x]
  /\ outdated' = outdated \ {i}
  /\ UNCHANGED <<splittable, split, buffer>>

\* write of x at a symbolic offset that comes to i.
WriteAtSymbolicOffset(i, x) ==
  /\ SymbolicOffsetAllowed
  /\ updates' = [FlushedUpdates(Extent(i)) EXCEPT ![i] = x]
  /\ flushed' = flushed \cup Extent(i)
  /\ hasFlushMask' = TRUE
  /\ MarkBytesSymbolic({j \in Extent(i) : IsByteConcrete(j)})
  /\ knownSymbolics' = [j \in Offsets |-> IF j \in Extent(i) THEN Null ELSE knownSymbolics[j]]
  /\ contents' = [contents EXCEPT ![i] = x]
  /\ outdated' = outdated \ {i}
  /\ UNCHANGED <<splittable, split, buffer>>

\* initializeConcreteMask and split of every piece: the pieces share buffer and
\* mask, take over the known expressions and start without an update list.
Split ==
  /\ splittable
  /\ ~split
  /\ split' = TRUE
  /\ splittable' = FALSE
  /\ concreteMask' = IF concreteMask = Null THEN Offsets ELSE concreteMask
  /\ hasFlushMask' = FALSE
  /\ flushed' = {}
  /\ updates' = [i \in Offsets |-> Zero]
  /\ UNCHANGED <<buffer, knownSymbolics, contents, outdated>>

Next ==
  \/ \E i \in Offsets, v \in Vals : WriteConcrete(i, v)
  \/ \E i \in Offsets, x \in Vals : WriteSymbolic(i, x)
  \/ \E i \in Offsets, v \in Vals : DirectWrite(i, v)
  \/ \E i \in Offsets : ReadAtSymbolicOffset(i)
  \/ \E i \in Offsets, x \in Vals : WriteAtSymbolicOffset(i, x)
  \/ Split

Spec == Init /\ [][Next]_vars

-------------------------------------------------------------------------------
\* The variables have the types of the fields of ObjectState; the expressions
\* that are kept are bytes, also in the update list after a flush.
TypeOK ==
  /\ splittable \in BOOLEAN
  /\ split \in BOOLEAN
  /\ buffer \in [Offsets -> Vals]
  /\ concreteMask \in (SUBSET Offsets) \cup {Null}
  /\ knownSymbolics \in [Offsets -> Vals \cup {Null}]
  /\ hasFlushMask \in BOOLEAN
  /\ flushed \subseteq Offsets
  /\ updates \in [Offsets -> Vals]
  /\ contents \in [Offsets -> Vals]
  /\ outdated \subseteq Offsets

\* Memory.cpp, "Cache Invariants": a byte is not both concrete and known symbolic,
\* and one that the update list is behind on has a value in one of the caches
\* (the assertions of flushRangeForRead and flushRangeForWrite).
CacheInvariants ==
  \A i \in Offsets :
    /\ ~(IsByteKnownSymbolic(i) /\ IsByteConcrete(i))
    /\ ~IsByteFlushed(i) => IsByteConcrete(i) \/ IsByteKnownSymbolic(i)

\* Whatever mix of concrete, symbolic, symbolically addressed and direct writes came
\* before, read8 of a byte gives what was last written to it, with one exception: a
\* byte that was stored to directly after a flush and that a write at a symbolic
\* offset has made symbolic since (flushRangeForWrite takes it as flushed).
ReadsAreExact ==
  \A i \in Offsets : IsByteConcrete(i) \/ i \notin outdated => Read8(i) = contents[i]

\* The update list is right for the bytes it is said to be up to date for, but for
\* those stored to directly since: a read at a symbolic offset, which only looks
\* there, gives what was last written.
FlushedBytesAreCurrent ==
  \A i \in flushed \ outdated : updates[i] = contents[i]

\* Without the exception, which the code does not satisfy.
EveryReadIsExact ==
  \A i \in Offsets : Read8(i) = contents[i]

\* The assertions of ObjectState::split: a page that can still be split has
\* neither flush mask nor update list, whose contents the pieces would lose; and
\* pieces always have the mask they share, so markByteSymbolic never gives one
\* of them a mask of its own.
SplitLosesNothing ==
  /\ splittable => ~split /\ ~hasFlushMask
  /\ split => concreteMask # Null

===============================================================================
