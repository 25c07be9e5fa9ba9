--------------------------- MODULE IsolatedMemories ---------------------------
(***************************************************************************)
(* What a client of klee::AddressSpace is promised: every execution state  *)
(* has a memory of its own.  Forking copies the memory of the parent, and  *)
(* from then on nothing that happens in one state is visible in another.   *)
(* There is no sharing, no copy-on-write and no cache at this level.       *)
(***************************************************************************)

CONSTANTS States, Root, Pages, Offsets, Values, Unmapped

VARIABLES live, mem

vars == <<live, mem>>

Address == Pages \X Offsets

Empty == [a \in Address |-> Unmapped]

Init ==
  /\ live = {Root}
  /\ mem = [s \in States |-> Empty]

\* A whole page appears in, or disappears from, the memory of s alone.
Map(s, p, v) ==
  /\ UNCHANGED live
  /\ mem' = [mem EXCEPT ![s] = [a \in Address |-> IF a[1] = p THEN v ELSE mem[s][a]]]

\* A write changes one byte of the memory of s alone.
Write(s, a, v) ==
  /\ UNCHANGED live
  /\ mem[s][a] # Unmapped
  /\ mem' = [mem EXCEPT ![s] = [mem[s] EXCEPT ![a] = v]]

\* The child starts with the parent's memory.
Fork(s, t) ==
  /\ live' = live \cup {t}
  /\ mem' = [mem EXCEPT ![t] = mem[s]]

Delete(s) ==
  /\ live' = live \ {s}
  /\ mem' = [mem EXCEPT ![s] = Empty]

Next ==
  \E s \in live :
    \/ \E p \in Pages, v \in Values \cup {Unmapped} : Map(s, p, v)
    \/ \E a \in Address, v \in Values : Write(s, a, v)
    \/ \E t \in States \ live : Fork(s, t)
    \/ Delete(s)

Spec == Init /\ [][Next]_vars

===============================================================================
