---------------------------- MODULE MCCpuRegisters ----------------------------
(* Instances of CpuRegisters for TLC. *)
EXTENDS CpuRegisters, TLC

Symmetry == Permutations(Vals)

===============================================================================
