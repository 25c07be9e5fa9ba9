--------------------------- MODULE MCLoadBalancing ---------------------------
(* Instances of LoadBalancing for TLC. *)
EXTENDS LoadBalancing, TLC

Symmetry == Permutations(Procs \ {Root})

===============================================================================
