------------------------------ MODULE MCStateTlb ------------------------------
(***************************************************************************)
(* Two states and one page of RAM behind one entry of each TLB.            *)
(***************************************************************************)
EXTENDS StateTlb

MCRamIndex == [p \in Pages |-> 1]

===============================================================================
