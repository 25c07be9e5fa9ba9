---------------------------- MODULE MCAddressSpace ----------------------------
(***************************************************************************)
(* Three generations of states over one page of two bytes.                 *)
(***************************************************************************)
EXTENDS AddressSpace, TLC

\* The two addresses of the page collide in the cache, as any two may.
MCHash == [a \in Address |-> 1]

\* The specification names no state but Root, no buffer and no value.
Symmetry ==
  Permutations(States \ {Root}) \cup Permutations(BufIds) \cup Permutations(Values)

===============================================================================
